---- MODULE Spec2Model ----
(***************************************************************************)
(* State-machine model of the chat client's synchronization core          *)
(* (vue3-chat-uikit): the REST message store (useMessages), the typing     *)
(* tracker (useChat), the pinned-message cache (usePinMessage) and the     *)
(* application's socket callbacks (App.vue / useSocket).                   *)
(*                                                                         *)
(* Each subsystem has its own specification (SpecMsg, SpecTyping, SpecPin, *)
(* SpecApp); a specification leaves the other subsystems' variables        *)
(* unchanged.                                                              *)
(***************************************************************************)
EXTENDS Integers, Sequences, FiniteSets, TLC

(***************************************************************************)
(* Bounds and input domains                                                *)
(***************************************************************************)
\* longest message list the model lets a conversation grow to
MaxLen == 3
\* most getChatHistory requests in flight at once
MaxPending == 1
\* most user_typing events one behaviour handles
MaxTypingEvents == 4
\* the clock stops here
MaxNow == 5000
\* longest conversation list a server answers with
MaxConvs == 2
\* most fields a reference string is put together from
MaxFields == 3
\* most handleSelectConversation calls awaiting a response at once
MaxSelecting == 2

\* conversation ids
Convs == {"c1", "c2"}
\* message ids
MsgIds == {"m1", "m2"}
\* createdAt values (getTime() of the message's date)
Times == {1, 2}
\* page numbers asked of getChatHistory
Pages == {1, 2}

\* IChatMessage, reduced to the fields the store reads: id and createdAt
Msg == [id : MsgIds, createdAt : Times]

VARIABLES
    messages,           \* useMessages: messages Map, conversation id -> IChatMessage[]
    msgKeys,            \* keys of the messages Map, in insertion order
    isLoadingMessages,  \* useMessages: isLoadingMessages
    pendingHistory,     \* getChatHistory calls awaiting api.get: <<conversationId, page>>
    typingUsers,        \* useChat: typingUsers Map, as its values in insertion order
    typingTimeouts,     \* useChat: typingTimeouts Map, key -> handle of the key's timer
    timers,             \* setTimeout callbacks of useChat still pending: [key, due]
    now,                \* Date.now(), in ms
    chatSocket,         \* useChat: socket.value is not null
    listening,          \* useChat: the user_typing handler is registered on the socket
    typingEvents,       \* number of user_typing events handled so far
    lastTyping,         \* history: per key, what last happened to it and when
    cancelled,          \* history: per key, the handle its last user_typing event cleared
    pinnedMessages,     \* usePinMessage: pinnedMessages Map, conversation id -> IPinnedMessage[]
    lastPin,            \* history: "reorder" when the last cache operation was an
                        \* updatePinnedMessageOrder that found its message, else "other"
    socket,             \* useSocket (App.vue): socket.value, "null" or the socket's state
    isConnected,        \* useSocket (App.vue): isConnected
    isConnecting,       \* useSocket (App.vue): isConnecting
    error,              \* useSocket (App.vue): error, "null" or "err"
    attempts,           \* reconnection attempts the socket has made since it lost its connection
    socketToken,        \* auth.token the current socket was created with
    storedToken,        \* localStorage accessToken, "" when there is none
    configToken,        \* config.options.auth.token, read when useSocket(...) was called
    lastConnect,        \* history: what the last connect() call did
    onConnectEmits,     \* history: the events the last connect handler emitted
    chatConnected,      \* useChat: isConnected of its own useSocket
    lastOut,            \* history: the last outbound action and its outcome
    lastNorm,           \* the last call of a normalization function: its input and result
    conversations,      \* useConversation: conversations, as the participants of its one conversation
    userCache,          \* useConversation: userCache, user id -> cached user details
    lastRead,           \* history: the last markAllAsRead call and what it returned
    storedUser,         \* localStorage user, "" when there is none, else the user's id
    currentUser,        \* useAuth: currentUser, "null" or the user's id
    lastAuth,           \* history: the last hasValidToken call or 401 response
    inFlight,           \* ids of the messages sent by send_message the server has not announced yet
    lastSend,           \* history: what the last handleSendMessage did
    convList,           \* useConversation: conversations, as id and last-message fields, in list order
    lastInbound,        \* history: the last new_message event handled
    appTypingAt,        \* history: per user, Date.now() of the last typing-start App.vue showed
    joined,             \* the rooms the client has joined and not left, as the server sees them
    selecting,          \* handleSelectConversation calls awaiting a response: conversation, await
    otherTimeouts,      \* a second useChat instance: its typingTimeouts Map
    otherTimers,        \* setTimeout callbacks of the second instance still pending
    replaced,           \* useSocket (App.vue): the state of the socket connect() last replaced
                        \* while it was alive, "none" when there is none
    appTypingUsers,     \* App.vue: typingUsers, the names shown as typing
    onlineUsers,        \* App.vue: onlineUsers
    activeConversation  \* useConversation: activeConversation, "null" or its _id

msgVars == <<messages, msgKeys, isLoadingMessages, pendingHistory>>

typingVars == <<typingUsers, typingTimeouts, timers, now, chatSocket, listening,
                typingEvents, lastTyping, cancelled>>

pinVars == <<pinnedMessages, lastPin>>

\* the connection state of App.vue's useSocket
connVars == <<socket, isConnected, isConnecting, error, attempts, socketToken>>

\* what App.vue shows of the other users
presenceVars == <<appTypingUsers, onlineUsers>>

tokenVars == <<storedToken, configToken>>

appVars == <<connVars, presenceVars, activeConversation, tokenVars, lastConnect,
             onConnectEmits>>

outVars == <<chatConnected, lastOut>>

convVars == <<conversations, userCache>>

authVars == <<storedUser, currentUser, lastAuth>>

sendVars == <<inFlight, lastSend>>

\* the order of the conversation list
listVars == <<convList>>

\* the inbound events handled
inboundVars == <<lastInbound>>

\* the state of the subsystems the earlier ones never touch
\* the timers of a second useChat instance
otherVars == <<otherTimeouts, otherTimers>>

\* the rooms and the conversation selections under way
selectVars == <<joined, selecting>>

moreVars == <<listVars, inboundVars, appTypingAt, replaced, otherVars, selectVars>>

\* the state of the earlier subsystems
baseVars == <<msgVars, typingVars, pinVars, appVars, outVars, lastNorm, convVars, lastRead,
              authVars, sendVars>>

\* what the conversation list's order leaves alone
notList == <<baseVars, inboundVars, appTypingAt, replaced, otherVars, selectVars>>

\* what the App component, useAuth and the sockets connect() replaced leave
\* alone
notSockets == <<msgVars, typingVars, pinVars, chatConnected, lastNorm, convVars, lastRead,
                sendVars, authVars, listVars, inboundVars, appTypingAt, otherVars, selectVars>>

\* what the message store's operations leave alone
notMsg == <<typingVars, pinVars, appVars, outVars, lastNorm, convVars, lastRead, authVars,
             sendVars, moreVars>>

\* what the typing tracker's operations leave alone
notTyping == <<msgVars, pinVars, appVars, lastNorm, convVars, lastRead, authVars, sendVars,
                moreVars>>

\* what the pinned-message cache's operations leave alone
notPin == <<msgVars, typingVars, appVars, outVars, lastNorm, convVars, lastRead, authVars,
             sendVars, moreVars>>

\* what the App component and useAuth leave alone
notAppAuth == <<msgVars, typingVars, pinVars, chatConnected, lastNorm, convVars, lastRead,
                 sendVars, moreVars>>

\* what the App component's socket callbacks leave alone
notApp == <<notAppAuth, authVars>>

\* what the normalization functions leave alone
notNorm == <<msgVars, typingVars, pinVars, appVars, outVars, convVars, lastRead, authVars,
              sendVars, moreVars>>

\* what the conversation list's operations leave alone
notConv == <<msgVars, typingVars, pinVars, appVars, outVars, lastNorm, lastRead, authVars,
              sendVars, moreVars>>

vars == <<msgVars, typingVars, pinVars, appVars, outVars, lastNorm, convVars, lastRead,
           authVars, sendVars, moreVars>>

(***************************************************************************)
(* Sequence helpers                                                        *)
(***************************************************************************)
Range(s) == {s[i] : i \in 1..Len(s)}

\* Array.prototype.findIndex on the predicate "element id = id": the first
\* position (1-based) holding the id, 0 when there is none (JS: -1)
FindIndexById(list, id) ==
    IF \E i \in 1..Len(list) : list[i].id = id
    THEN CHOOSE i \in 1..Len(list) :
            /\ list[i].id = id
            /\ \A j \in 1..(i - 1) : list[j].id # id
    ELSE 0

\* Array.prototype.splice(i, 1): the list without position i
RemoveAt(list, i) == SubSeq(list, 1, i - 1) \o SubSeq(list, i + 1, Len(list))

\* Array.prototype.splice(i, 0, x) for 0-based start i in 0..Len: x lands at
\* 1-based position i + 1
InsertAt(list, i, x) == SubSeq(list, 1, i) \o <<x>> \o SubSeq(list, i + 1, Len(list))

\* one step of a stable insertion: x goes behind every element whose
\* createdAt is not greater than its own
InsertByCreatedAt(sorted, x) ==
    LET n == Cardinality({i \in 1..Len(sorted) : sorted[i].createdAt <= x.createdAt})
    IN  InsertAt(sorted, n, x)

RECURSIVE SortPrefix(_, _)
SortPrefix(list, k) ==
    IF k = 0 THEN <<>>
    ELSE InsertByCreatedAt(SortPrefix(list, k - 1), list[k])

\* conversationMessages.sort((a, b) => createdAt(a) - createdAt(b)):
\* ascending by createdAt, stable (ECMAScript 2019 Array.prototype.sort)
SortByCreatedAt(list) == SortPrefix(list, Len(list))

\* Map.prototype.set on the key order: a new key goes last, a present key
\* keeps its place
KeysSet(keys, c) == IF c \in Range(keys) THEN keys ELSE Append(keys, c)

\* Map.prototype.delete on the key order
KeysDelete(keys, c) == SelectSeq(keys, LAMBDA k : k # c)

(***************************************************************************)
(* useMessages: the REST message store                                     *)
(***************************************************************************)
\* addMessage on one conversation's array: replace the first element with
\* the id, or push; then sort by createdAt
addMessageList(list, m) ==
    LET existingIndex == FindIndexById(list, m.id)
    IN  SortByCreatedAt(IF existingIndex > 0
                        THEN [list EXCEPT ![existingIndex] = m]
                        ELSE Append(list, m))

\* addMessage(conversationId, message)
addMessage(c, m) ==
    /\ Len(addMessageList(messages[c], m)) <= MaxLen
    /\ messages' = [messages EXCEPT ![c] = addMessageList(messages[c], m)]
    /\ msgKeys' = KeysSet(msgKeys, c)
    /\ UNCHANGED <<isLoadingMessages, pendingHistory, notMsg>>

\* the first conversation, in Map iteration order, whose array holds the id;
\* 0 when no array holds it
FirstKeyHolding(id) ==
    IF \E k \in 1..Len(msgKeys) : FindIndexById(messages[msgKeys[k]], id) > 0
    THEN CHOOSE k \in 1..Len(msgKeys) :
            /\ FindIndexById(messages[msgKeys[k]], id) > 0
            /\ \A j \in 1..(k - 1) : FindIndexById(messages[msgKeys[j]], id) = 0
    ELSE 0

\* updateMessage(message): replace in the first conversation that holds the
\* id, at the first position holding it; nothing is sorted
updateMessage(m) ==
    /\ LET k == FirstKeyHolding(m.id)
       IN  IF k = 0 THEN UNCHANGED messages
           ELSE LET c == msgKeys[k]
                    index == FindIndexById(messages[c], m.id)
                IN  messages' = [messages EXCEPT ![c][index] = m]
    /\ UNCHANGED <<msgKeys, isLoadingMessages, pendingHistory, notMsg>>

\* removeMessage(messageId): splice the first occurrence out of the first
\* conversation that holds the id
removeMessage(id) ==
    /\ LET k == FirstKeyHolding(id)
       IN  IF k = 0 THEN UNCHANGED messages
           ELSE LET c == msgKeys[k]
                    index == FindIndexById(messages[c], id)
                IN  messages' = [messages EXCEPT ![c] = RemoveAt(messages[c], index)]
    /\ UNCHANGED <<msgKeys, isLoadingMessages, pendingHistory, notMsg>>

\* clearMessages(conversationId)
clearMessages(c) ==
    /\ messages' = [messages EXCEPT ![c] = <<>>]
    /\ msgKeys' = KeysDelete(msgKeys, c)
    /\ UNCHANGED <<isLoadingMessages, pendingHistory, notMsg>>

\* the message arrays a history response can carry: at most two messages,
\* in any order, no id twice within one response
HistoryResponses ==
    {<<>>} \cup {<<m>> : m \in Msg}
           \cup {p \in Msg \X Msg : p[1].id # p[2].id}

\* getChatHistory(conversationId, page) up to its await of api.get
getChatHistoryCall(c, page) ==
    /\ <<c, page>> \notin pendingHistory
    /\ Cardinality(pendingHistory) < MaxPending
    /\ isLoadingMessages' = TRUE
    /\ pendingHistory' = pendingHistory \cup {<<c, page>>}
    /\ UNCHANGED <<messages, msgKeys, notMsg>>

\* the list getChatHistory stores: page 1 replaces, a later page is appended
historyStored(existing, page, data) ==
    IF page = 1 THEN data ELSE existing \o data

\* getChatHistory after api.get resolved with data.messages = data
getChatHistoryOk(c, page, data) ==
    /\ <<c, page>> \in pendingHistory
    /\ Len(historyStored(messages[c], page, data)) <= MaxLen
    /\ messages' = [messages EXCEPT ![c] = historyStored(messages[c], page, data)]
    /\ msgKeys' = KeysSet(msgKeys, c)
    /\ isLoadingMessages' = FALSE
    /\ pendingHistory' = pendingHistory \ {<<c, page>>}
    /\ UNCHANGED notMsg

\* getChatHistory after api.get rejected: the catch and finally blocks
getChatHistoryFail(c, page) ==
    /\ <<c, page>> \in pendingHistory
    /\ isLoadingMessages' = FALSE
    /\ pendingHistory' = pendingHistory \ {<<c, page>>}
    /\ UNCHANGED <<messages, msgKeys, notMsg>>

\* REST sendMessage after api.post resolved with data.message = m
\* (a rejected post changes no state)
sendMessage(c, m) == addMessage(c, m)

\* editMessage after api.put resolved with data.message = m
editMessage(m) == updateMessage(m)

\* deleteMessage after api.del resolved
deleteMessage(id) == removeMessage(id)

InitMsg ==
    /\ messages = [c \in Convs |-> <<>>]
    /\ msgKeys = <<>>
    /\ isLoadingMessages = FALSE
    /\ pendingHistory = {}

MsgNext ==
    \/ \E c \in Convs, m \in Msg : addMessage(c, m)
    \/ \E c \in Convs, m \in Msg : sendMessage(c, m)
    \/ \E m \in Msg : updateMessage(m)
    \/ \E m \in Msg : editMessage(m)
    \/ \E id \in MsgIds : removeMessage(id)
    \/ \E id \in MsgIds : deleteMessage(id)
    \/ \E c \in Convs : clearMessages(c)
    \/ \E c \in Convs, p \in Pages : getChatHistoryCall(c, p)
    \/ \E c \in Convs, p \in Pages, d \in HistoryResponses : getChatHistoryOk(c, p, d)
    \/ \E c \in Convs, p \in Pages : getChatHistoryFail(c, p)


(***************************************************************************)
(* useChat: the typing tracker                                             *)
(***************************************************************************)
\* user ids seen in user_typing events
TypingUserIds == {"u1"}
\* the users that type together in one conversation
GroupTypingUserIds == {"u1", "u2"}
\* the conversation they type in
GroupConv == "c1"
\* the steps the clock advances by, in ms
TimeSteps == {500}
\* the delay of the auto-remove setTimeout, in ms
TypingTimeoutMs == 3000
\* typingTimeouts has no entry for the key
NoTimer == -1

\* what an outbound action did: whether the socket was connected when it
\* was called, whether it called emit, and what it returned
Outcome(op, by, connected, emitted, result) ==
    [op |-> op, by |-> by, connected |-> connected, emitted |-> emitted, result |-> result]

\* no outbound action has been called yet
NoOutcome == Outcome("none", "none", FALSE, FALSE, "undefined")

\* `${data.conversationId}-${data.userId}`: one key per (conversation, user)
\* (ids are hexadecimal, so the concatenation does not collide)
TypingKey(c, u) == <<c, u>>

TypingKeys == {TypingKey(c, u) : c \in Convs, u \in TypingUserIds \cup GroupTypingUserIds}

\* typingUsers.value.has(key)
TypingHas(key) == \E i \in 1..Len(typingUsers) : typingUsers[i].key = key

\* typingUsers.value.get(key).timestamp
TypingTimestamp(key) ==
    typingUsers[CHOOSE i \in 1..Len(typingUsers) : typingUsers[i].key = key].timestamp

\* Map.prototype.set on the entries: a present key keeps its place in the
\* iteration order, a new key goes last
TypingSet(entries, e) ==
    IF \E i \in 1..Len(entries) : entries[i].key = e.key
    THEN [i \in 1..Len(entries) |-> IF entries[i].key = e.key THEN e ELSE entries[i]]
    ELSE Append(entries, e)

\* Map.prototype.delete on the entries
TypingDelete(entries, key) == SelectSeq(entries, LAMBDA e : e.key # key)

\* the timer a handle of typingTimeouts stands for
TimerOf(key, handle) == [key |-> key, due |-> handle]

\* clearTimeout(typingTimeouts.get(key)) when typingTimeouts.has(key)
ClearTimeoutOf(pending, key) ==
    IF typingTimeouts[key] # NoTimer
    THEN pending \ {TimerOf(key, typingTimeouts[key])}
    ELSE pending

\* the isTyping branch on the pending timers, with the existing timeout left
\* running instead of cleared
timersAfterStart_KeepOld(key) ==
    timers \cup {TimerOf(key, now + TypingTimeoutMs)}

\* the isTyping branch on the pending timers: clear the key's existing
\* timeout, then setTimeout(..., 3000)
timersAfterStart(key) ==
    ClearTimeoutOf(timers, key) \cup {TimerOf(key, now + TypingTimeoutMs)}

\* the stop branch on the pending timers, with the timeout left running
timersAfterStop_KeepOld(key) == timers

\* the stop branch on the pending timers: clear the key's timeout if it has one
timersAfterStop(key) == ClearTimeoutOf(timers, key)

\* socket.on('user_typing') handler, data.isTyping true
onUserTypingStart(c, u) ==
    LET key == TypingKey(c, u)
    IN  /\ listening
        /\ typingEvents < MaxTypingEvents
        /\ typingUsers' = TypingSet(typingUsers,
                                    [key |-> key, conversationId |-> c, userId |-> u,
                                     isTyping |-> TRUE, timestamp |-> now])
        /\ timers' = timersAfterStart(key)
        /\ typingTimeouts' = [typingTimeouts EXCEPT ![key] = now + TypingTimeoutMs]
        /\ typingEvents' = typingEvents + 1
        /\ lastTyping' = [lastTyping EXCEPT ![key] = [kind |-> "start", at |-> now]]
        /\ cancelled' = [cancelled EXCEPT ![key] = typingTimeouts[key]]
        /\ UNCHANGED <<notTyping, outVars, now, chatSocket, listening>>

\* socket.on('user_typing') handler, data.isTyping false
onUserTypingStop(c, u) ==
    LET key == TypingKey(c, u)
    IN  /\ listening
        /\ typingEvents < MaxTypingEvents
        /\ typingUsers' = TypingDelete(typingUsers, key)
        /\ timers' = timersAfterStop(key)
        /\ typingTimeouts' = [typingTimeouts EXCEPT ![key] = NoTimer]
        /\ typingEvents' = typingEvents + 1
        /\ lastTyping' = [lastTyping EXCEPT ![key] = [kind |-> "stop", at |-> 0]]
        /\ cancelled' = [cancelled EXCEPT ![key] = typingTimeouts[key]]
        /\ UNCHANGED <<notTyping, outVars, now, chatSocket, listening>>

\* the setTimeout callback, forgetting to delete the indicator
typingTimeoutFires_KeepUser(t) ==
    /\ t \in timers
    /\ now >= t.due
    /\ typingTimeouts' = [typingTimeouts EXCEPT ![t.key] = NoTimer]
    /\ timers' = timers \ {t}
    /\ cancelled' = [cancelled EXCEPT ![t.key] = NoTimer]
    /\ UNCHANGED <<notTyping, outVars, typingUsers, now, chatSocket, listening, typingEvents,
                   lastTyping>>

\* the setTimeout callback of the isTyping branch, run when it is due
typingTimeoutFires(t) ==
    /\ t \in timers
    /\ now >= t.due
    /\ typingUsers' = TypingDelete(typingUsers, t.key)
    /\ typingTimeouts' = [typingTimeouts EXCEPT ![t.key] = NoTimer]
    /\ timers' = timers \ {t}
    /\ cancelled' = [cancelled EXCEPT ![t.key] = NoTimer]
    /\ UNCHANGED <<notTyping, outVars, now, chatSocket, listening, typingEvents, lastTyping>>

\* time passes; a due callback runs before the clock moves past it
Tick(d) ==
    /\ now + d <= MaxNow
    /\ \A t \in timers \cup otherTimers : t.due >= now + d
    /\ now' = now + d
    /\ UNCHANGED <<notTyping, outVars, typingUsers, typingTimeouts, timers, chatSocket, listening,
                   typingEvents, lastTyping, cancelled>>

\* useChat.leaveConversation(conversationId): without a socket it returns
\* at once; otherwise it deletes the conversation's indicators (their
\* timeouts are left alone)
leaveConversation(c) ==
    /\ chatSocket
    /\ typingUsers' = SelectSeq(typingUsers, LAMBDA e : e.conversationId # c)
    /\ lastTyping' = [k \in TypingKeys |->
                        IF k[1] = c /\ TypingHas(k)
                        THEN [kind |-> "cleared", at |-> 0] ELSE lastTyping[k]]
    /\ cancelled' = [k \in TypingKeys |-> IF k[1] = c THEN NoTimer ELSE cancelled[k]]
    /\ lastOut' = Outcome("leaveConversation", "chat", chatConnected, TRUE, "undefined")
    /\ UNCHANGED <<notTyping, chatConnected, typingTimeouts, timers, now, chatSocket,
                   listening, typingEvents>>

\* useChat.cleanup(): removeListeners, clear every timeout, clear both maps
cleanup ==
    /\ listening' = (IF chatSocket THEN FALSE ELSE listening)
    /\ timers' = timers \ {TimerOf(k, typingTimeouts[k]) : k \in TypingKeys}
    /\ typingTimeouts' = [k \in TypingKeys |-> NoTimer]
    /\ typingUsers' = <<>>
    /\ lastTyping' = [k \in TypingKeys |->
                        IF TypingHas(k)
                        THEN [kind |-> "cleared", at |-> 0] ELSE lastTyping[k]]
    /\ cancelled' = [k \in TypingKeys |-> NoTimer]
    /\ UNCHANGED <<notTyping, outVars, now, chatSocket, typingEvents>>

\* useChat.connect() while there is no socket: io(...) creates one
chatConnect ==
    /\ ~chatSocket
    /\ chatSocket' = TRUE
    /\ UNCHANGED <<notTyping, outVars, typingUsers, typingTimeouts, timers, now, listening,
                   typingEvents, lastTyping, cancelled>>

\* useChat.disconnect(): the socket is closed and dropped, its handlers with it
chatDisconnect ==
    /\ chatSocket
    /\ chatSocket' = FALSE
    /\ listening' = FALSE
    /\ chatConnected' = FALSE
    /\ UNCHANGED <<notTyping, lastOut, typingUsers, typingTimeouts, timers, now,
                   typingEvents, lastTyping, cancelled>>

\* useChat.setupListeners({onUserTyping, ...}): with a socket it registers
\* the handler; without one it calls connect() (the retry one second later
\* is a further call of this operation)
setupListeners ==
    /\ IF chatSocket
       THEN listening' = TRUE /\ UNCHANGED chatSocket
       ELSE chatSocket' = TRUE /\ UNCHANGED listening
    /\ UNCHANGED <<notTyping, outVars, typingUsers, typingTimeouts, timers, now,
                   typingEvents, lastTyping, cancelled>>

\* useChat.removeListeners()
removeListeners ==
    /\ chatSocket
    /\ listening' = FALSE
    /\ UNCHANGED <<notTyping, outVars, typingUsers, typingTimeouts, timers, now, chatSocket,
                   typingEvents, lastTyping, cancelled>>

\* useChat.getTypingUsers(conversationId)
getTypingUsers(c) ==
    SelectSeq(typingUsers, LAMBDA user : user.conversationId = c /\ user.isTyping)

InitTyping ==
    /\ typingUsers = <<>>
    /\ typingTimeouts = [k \in TypingKeys |-> NoTimer]
    /\ timers = {}
    /\ now = 0
    /\ chatSocket = FALSE
    /\ listening = FALSE
    /\ typingEvents = 0
    /\ lastTyping = [k \in TypingKeys |-> [kind |-> "none", at |-> 0]]
    /\ cancelled = [k \in TypingKeys |-> NoTimer]

TypingNext ==
    \/ \E c \in Convs, u \in TypingUserIds : onUserTypingStart(c, u)
    \/ \E c \in Convs, u \in TypingUserIds : onUserTypingStop(c, u)
    \/ \E t \in timers : typingTimeoutFires(t)
    \/ \E d \in TimeSteps : Tick(d)
    \/ \E c \in Convs : leaveConversation(c)
    \/ cleanup
    \/ chatConnect
    \/ chatDisconnect
    \/ setupListeners
    \/ removeListeners

\* the typing tracker with several users typing in one conversation
GroupTypingNext ==
    \/ \E u \in GroupTypingUserIds : onUserTypingStart(GroupConv, u)
    \/ \E u \in GroupTypingUserIds : onUserTypingStop(GroupConv, u)
    \/ \E t \in timers : typingTimeoutFires(t)
    \/ \E d \in TimeSteps : Tick(d)
    \/ chatConnect
    \/ setupListeners

(***************************************************************************)
(* usePinMessage: the pinned-message cache                                 *)
(***************************************************************************)
\* conversations with a pinned list
PinConvs == {"c1"}
\* ids of the messages that get pinned (pm.message.id)
PinMsgIds == {"p1", "p2", "p3", "p4", "p5", "p6"}
\* IPinnedMessage.order as the interface documents it: "Order position (0-4)"
PinOrders == 0..4
\* newOrder values handed to updatePinnedMessageOrder
NewOrders == -1..5

\* IPinnedMessage, reduced to message.id (as id) and order
PinnedMessage == [id : PinMsgIds, order : PinOrders]

\* the order values a pin event for message id arrives with: for a message
\* the cache already holds, the order it was pinned with (the event is a
\* retry); for a new one, the next free position when the cache is in step
\* with the server and the last documented position when it is not
AddOrders(existing, id) ==
    IF FindIndexById(existing, id) > 0
    THEN {existing[FindIndexById(existing, id)].order}
    ELSE {Len(existing), 4} \cap PinOrders

\* one step of a stable insertion by order
InsertByOrder(sorted, x) ==
    LET n == Cardinality({i \in 1..Len(sorted) : sorted[i].order <= x.order})
    IN  InsertAt(sorted, n, x)

RECURSIVE SortOrderPrefix(_, _)
SortOrderPrefix(list, k) ==
    IF k = 0 THEN <<>>
    ELSE InsertByOrder(SortOrderPrefix(list, k - 1), list[k])

\* existing.sort((a, b) => a.order - b.order)
SortByOrder(list) == SortOrderPrefix(list, Len(list))

\* list.forEach((pm, index) => { pm.order = index })
Renumber(list) == [i \in 1..Len(list) |-> [list[i] EXCEPT !.order = i - 1]]

\* the start index Array.prototype.splice uses for a given start argument:
\* a negative start counts from the end, and the result is kept in 0..len
SpliceStart(len, start) ==
    IF start < 0
    THEN (IF len + start < 0 THEN 0 ELSE len + start)
    ELSE (IF start > len THEN len ELSE start)

\* addPinnedMessage on one conversation's array
addPinnedList(existing, pm) ==
    LET index == FindIndexById(existing, pm.id)
    IN  IF index = 0
        THEN SortByOrder(Append(existing, pm))
        ELSE [existing EXCEPT ![index] = pm]

\* removePinnedMessage on one conversation's array
removePinnedList(existing, messageId) ==
    Renumber(SelectSeq(existing, LAMBDA pm : pm.id # messageId))

\* updatePinnedMessageOrder exchanging the two entries instead of moving one
updatePinnedOrderList_Swap(existing, messageId, newOrder) ==
    LET messageIndex == FindIndexById(existing, messageId)
        target == SpliceStart(Len(existing) - 1, newOrder) + 1
    IN  IF messageIndex = 0 THEN existing
        ELSE Renumber([i \in 1..Len(existing) |->
                          IF i = target THEN existing[messageIndex]
                          ELSE IF i = messageIndex THEN existing[target]
                          ELSE existing[i]])

\* updatePinnedMessageOrder on one conversation's array: splice the entry
\* out, splice it in at newOrder, renumber
updatePinnedOrderList(existing, messageId, newOrder) ==
    LET messageIndex == FindIndexById(existing, messageId)
    IN  IF messageIndex = 0 THEN existing
        ELSE LET rest == RemoveAt(existing, messageIndex)
             IN  Renumber(InsertAt(rest, SpliceStart(Len(rest), newOrder),
                                   existing[messageIndex]))

\* addPinnedMessage(conversationId, pinnedMessage)
addPinnedMessage(c, pm) ==
    /\ pinnedMessages' = [pinnedMessages EXCEPT ![c] = addPinnedList(pinnedMessages[c], pm)]
    /\ lastPin' = "other"
    /\ UNCHANGED notPin

\* removePinnedMessage(conversationId, messageId)
removePinnedMessage(c, messageId) ==
    /\ pinnedMessages' = [pinnedMessages EXCEPT
                            ![c] = removePinnedList(pinnedMessages[c], messageId)]
    /\ lastPin' = "other"
    /\ UNCHANGED notPin

\* updatePinnedMessageOrder(conversationId, messageId, newOrder)
updatePinnedMessageOrder(c, messageId, newOrder) ==
    /\ pinnedMessages' = [pinnedMessages EXCEPT
                            ![c] = updatePinnedOrderList(pinnedMessages[c], messageId, newOrder)]
    /\ lastPin' = IF FindIndexById(pinnedMessages[c], messageId) = 0
                  THEN "other" ELSE "reorder"
    /\ UNCHANGED notPin

\* the pinned lists a server answers getPinnedMessages with: nothing pinned,
\* or five messages in order
PinnedResponses ==
    {<<>>,
     <<[id |-> "p1", order |-> 0], [id |-> "p2", order |-> 1], [id |-> "p3", order |-> 2],
       [id |-> "p4", order |-> 3], [id |-> "p5", order |-> 4]>>}

\* getPinnedMessages(conversationId) after api.get resolved with
\* response.pinnedMessages = list
getPinnedMessages(c, list) ==
    /\ pinnedMessages' = [pinnedMessages EXCEPT ![c] = list]
    /\ lastPin' = "other"
    /\ UNCHANGED notPin

\* clearPinnedMessages(conversationId)
clearPinnedMessages(c) ==
    /\ pinnedMessages' = [pinnedMessages EXCEPT ![c] = <<>>]
    /\ lastPin' = "other"
    /\ UNCHANGED notPin

InitPin ==
    /\ pinnedMessages = [c \in PinConvs |-> <<>>]
    /\ lastPin = "other"

PinNext ==
    \/ \E c \in PinConvs, id \in PinMsgIds :
          \E order \in AddOrders(pinnedMessages[c], id) :
              addPinnedMessage(c, [id |-> id, order |-> order])
    \/ \E c \in PinConvs, id \in PinMsgIds : removePinnedMessage(c, id)
    \/ \E c \in PinConvs, id \in PinMsgIds, k \in NewOrders : updatePinnedMessageOrder(c, id, k)
    \/ \E c \in PinConvs, l \in PinnedResponses : getPinnedMessages(c, l)
    \/ \E c \in PinConvs : clearPinnedMessages(c)

(***************************************************************************)
(* App.vue on useSocket: connection, typing names, online users            *)
(***************************************************************************)
AppUserIds == {"u1", "u2", "me"}

\* authUser.value?.id of the signed-in user
AuthUserId == "me"

\* IUser.name of a participant
UserName(u) == CASE u = "u1" -> "Ann" [] u = "u2" -> "Bob" [] OTHER -> "Me"

\* activeConversation.value.participants, as user ids
Participants(c) == IF c = "c1" THEN {"u1", "u2", "me"} ELSE {"u1", "me"}

\* Array.prototype.filter(u => u !== name)
FilterOutName(list, name) == SelectSeq(list, LAMBDA n : n # name)

\* Array.prototype.includes
Includes(list, name) == \E i \in 1..Len(list) : list[i] = name

\* access tokens a login stores
Tokens == {"t1", "t2"}

\* reconnectionAttempts of the io() options
ReconnectionAttempts == 5

\* socket.value?.connected
SocketConnected == socket = "connected"

\* useSocket connect() with the early return left out
connect_Always ==
    /\ isConnecting' = TRUE
    /\ error' = "null"
    /\ socket' = "connecting"
    /\ socketToken' = configToken
    /\ attempts' = 0
    /\ lastConnect' = "opened"
    /\ replaced' = IF socket \in {"connecting", "reconnecting"} THEN socket ELSE replaced
    /\ UNCHANGED <<notSockets, lastOut, isConnected, presenceVars, activeConversation,
                   tokenVars, onConnectEmits>>

\* useSocket connect(): nothing if the socket is connected, else a new
\* socket from io(config.url, {..., ...config.options}) with the listeners
\* of setupSocketListeners, which is told to connect; the socket that was
\* in socket.value is not disconnected and keeps its listeners (of several
\* such sockets the model follows the last)
connect ==
    IF SocketConnected
    THEN /\ lastConnect' = "ignored"
         /\ UNCHANGED <<notApp, lastOut, connVars, presenceVars, activeConversation, tokenVars,
                        onConnectEmits>>
    ELSE /\ isConnecting' = TRUE
         /\ error' = "null"
         /\ socket' = "connecting"
         /\ socketToken' = configToken
         /\ attempts' = 0
         /\ lastConnect' = "opened"
         /\ replaced' = IF socket \in {"connecting", "reconnecting"} THEN socket ELSE replaced
         /\ UNCHANGED <<notSockets, lastOut, isConnected, presenceVars, activeConversation,
                        tokenVars, onConnectEmits>>

\* socket.on('connect') of useSocket, then events.onConnect of App.vue,
\* which rejoins the active conversation with joinConversation
onConnect ==
    /\ socket \in {"connecting", "reconnecting"}
    /\ socket' = "connected"
    /\ isConnected' = TRUE
    /\ isConnecting' = FALSE
    /\ error' = "null"
    /\ attempts' = 0
    /\ lastOut' = IF activeConversation # "null"
                  THEN Outcome("joinConversation", "socket", TRUE, TRUE, "true")
                  ELSE lastOut
    /\ onConnectEmits' = IF activeConversation # "null"
                         THEN {"join_conversation"} ELSE {}
    /\ UNCHANGED <<notApp, socketToken, presenceVars, activeConversation, tokenVars,
                   lastConnect>>

\* socket.on('disconnect') of useSocket, then events.onDisconnect of
\* App.vue; the socket object stays and reconnects by itself
onDisconnect ==
    /\ socket = "connected"
    /\ socket' = "reconnecting"
    /\ isConnected' = FALSE
    /\ appTypingUsers' = <<>>
    /\ UNCHANGED <<notApp, lastOut, isConnecting, error, attempts, socketToken, onlineUsers,
                   activeConversation, tokenVars, lastConnect, onConnectEmits>>

\* a connect_error handler that records nothing
onConnectError_Silent ==
    /\ socket \in {"connecting", "reconnecting"}
    /\ IF socket = "connecting"
       THEN socket' = "reconnecting" /\ UNCHANGED attempts
       ELSE /\ attempts' = attempts + 1
            /\ socket' = IF attempts + 1 >= ReconnectionAttempts
                         THEN "closed" ELSE "reconnecting"
    /\ UNCHANGED <<notApp, lastOut, isConnected, isConnecting, error, socketToken, presenceVars,
                   activeConversation, tokenVars, lastConnect, onConnectEmits>>

\* socket.on('connect_error') of useSocket: the first connection or a
\* reconnection attempt failed; after reconnectionAttempts failed attempts
\* the socket gives up
onConnectError ==
    /\ socket \in {"connecting", "reconnecting"}
    /\ isConnecting' = FALSE
    /\ error' = "err"
    /\ IF socket = "connecting"
       THEN socket' = "reconnecting" /\ UNCHANGED attempts
       ELSE /\ attempts' = attempts + 1
            /\ socket' = IF attempts + 1 >= ReconnectionAttempts
                         THEN "closed" ELSE "reconnecting"
    /\ UNCHANGED <<notApp, lastOut, isConnected, socketToken, presenceVars,
                   activeConversation, tokenVars, lastConnect, onConnectEmits>>

\* useSocket disconnect(): with a socket, socket.disconnect() (a connected
\* socket runs its disconnect handler), socket.value = null, isConnected false
disconnect ==
    /\ IF socket = "null"
       THEN UNCHANGED <<socket, isConnected, appTypingUsers>>
       ELSE /\ socket' = "null"
            /\ isConnected' = FALSE
            /\ appTypingUsers' = IF SocketConnected THEN <<>> ELSE appTypingUsers
    /\ UNCHANGED <<notApp, lastOut, isConnecting, error, attempts, socketToken, onlineUsers,
                   activeConversation, tokenVars, lastConnect, onConnectEmits>>

\* socket.on('user_typing') of useSocket, then events.onUserTyping of App.vue
onUserTyping(c, u, isTyping) ==
    /\ socket = "connected"
    /\ appTypingUsers' =
          IF activeConversation = c /\ u # AuthUserId /\ u \in Participants(c)
          THEN IF isTyping
               THEN IF Includes(appTypingUsers, UserName(u))
                    THEN appTypingUsers
                    ELSE Append(appTypingUsers, UserName(u))
               ELSE FilterOutName(appTypingUsers, UserName(u))
          ELSE appTypingUsers
    /\ appTypingAt' =
          IF activeConversation = c /\ u # AuthUserId /\ u \in Participants(c) /\ isTyping
          THEN [appTypingAt EXCEPT ![u] = now]
          ELSE appTypingAt
    /\ UNCHANGED <<msgVars, typingVars, pinVars, chatConnected, lastNorm, convVars, lastRead,
                   sendVars, authVars, listVars, inboundVars, replaced, otherVars, selectVars,
                   lastOut, connVars, onlineUsers,
                   activeConversation, tokenVars, lastConnect, onConnectEmits>>

\* socket.on('user:online') of useSocket, then events.onUserOnline of App.vue
onUserOnline(u) ==
    /\ socket = "connected"
    /\ onlineUsers' = onlineUsers \cup {u}
    /\ UNCHANGED <<notApp, lastOut, connVars, appTypingUsers, activeConversation, tokenVars,
                   lastConnect, onConnectEmits>>

\* socket.on('user:offline') of useSocket, then events.onUserOffline of App.vue
onUserOffline(u) ==
    /\ socket = "connected"
    /\ onlineUsers' = onlineUsers \ {u}
    /\ UNCHANGED <<notApp, lastOut, connVars, appTypingUsers, activeConversation, tokenVars,
                   lastConnect, onConnectEmits>>

\* useConversation setActiveConversation(conversation)
setActiveConversation(c) ==
    /\ activeConversation' = c
    /\ UNCHANGED <<notApp, lastOut, connVars, presenceVars, tokenVars, lastConnect, onConnectEmits>>

\* the id claim of an access token's payload: payload.sub || payload.userId
\* || payload.id
TokenUserId(t) == IF t = "t1" THEN "u1" ELSE "u2"

\* useAuth handleGoogleLogin after the backend login resolved with access
\* token t ("" when the backend sent none, or in demo mode): the user
\* becomes currentUser and is stored, with the token or ''
login(t) ==
    /\ storedToken' = t
    /\ currentUser' = IF t = "" THEN "demo" ELSE TokenUserId(t)
    /\ storedUser' = IF t = "" THEN "demo" ELSE TokenUserId(t)
    /\ UNCHANGED <<notAppAuth, lastAuth, lastOut, connVars, presenceVars, activeConversation,
                   configToken, lastConnect, onConnectEmits>>

\* App.vue handleLoginSuccess: load the lists, then connect()
handleLoginSuccess == connect

\* App.vue handleSignOut: leave and unset the active conversation, sign
\* out, disconnect() the socket, clear the typing names and the online set
handleSignOut ==
    /\ lastOut' = IF activeConversation # "null" /\ isConnected
                  THEN Outcome("leaveConversation", "socket", SocketConnected,
                               SocketConnected, "undefined")
                  ELSE lastOut
    /\ activeConversation' = "null"
    /\ storedToken' = ""
    /\ storedUser' = ""
    /\ currentUser' = "null"
    /\ socket' = "null"
    /\ isConnected' = IF socket = "null" THEN isConnected ELSE FALSE
    /\ appTypingUsers' = <<>>
    /\ onlineUsers' = {}
    /\ UNCHANGED <<notAppAuth, lastAuth, isConnecting, error, attempts, socketToken,
                   configToken, lastConnect, onConnectEmits>>

\* the page is loaded again: App.vue is set up anew and useSocket(...) is
\* called with the token that is stored then
appSetup ==
    /\ socket' = "null"
    /\ isConnected' = FALSE
    /\ isConnecting' = FALSE
    /\ error' = "null"
    /\ attempts' = 0
    /\ socketToken' = ""
    /\ appTypingUsers' = <<>>
    /\ onlineUsers' = {}
    /\ configToken' = storedToken
    /\ lastConnect' = "none"
    /\ UNCHANGED <<notApp, lastOut, activeConversation, storedToken, onConnectEmits>>

InitApp ==
    /\ socket = "null"
    /\ isConnected = FALSE
    /\ isConnecting = FALSE
    /\ error = "null"
    /\ attempts = 0
    /\ socketToken = ""
    /\ storedToken = ""
    /\ configToken = ""
    /\ lastConnect = "none"
    /\ onConnectEmits = {}
    /\ appTypingUsers = <<>>
    /\ onlineUsers = {}
    /\ activeConversation = "null"

AppNext ==
    \/ connect
    \/ onConnect
    \/ onDisconnect
    \/ \E c \in Convs, u \in AppUserIds, isTyping \in BOOLEAN : onUserTyping(c, u, isTyping)
    \/ \E u \in AppUserIds : onUserOnline(u)
    \/ \E u \in AppUserIds : onUserOffline(u)
    \/ \E c \in Convs \cup {"null"} : setActiveConversation(c)
    \/ handleSignOut

\* the connection of App.vue's useSocket through logins, losses and reloads
ConnNext ==
    \/ connect
    \/ onConnect
    \/ onDisconnect
    \/ onConnectError
    \/ disconnect
    \/ \E t \in Tokens : login(t)
    \/ handleSignOut
    \/ appSetup
    \/ \E c \in Convs : setActiveConversation(c)

(***************************************************************************)
(* Outbound actions of useSocket (App.vue) and of useChat                  *)
(***************************************************************************)
\* what the outbound actions of useSocket leave alone
socketOutRest == <<notApp, appVars>>

\* what the outbound actions of useChat leave alone (but for chatSocket)
chatOutRest == <<notTyping, chatConnected, typingUsers, typingTimeouts, timers, now,
                 listening, typingEvents, lastTyping, cancelled>>

\* useSocket sendMessage(conversationId, message): false without a
\* connected socket, else emit send_message and true
socketSendMessage ==
    /\ lastOut' = Outcome("sendMessage", "socket", SocketConnected, SocketConnected,
                          IF SocketConnected THEN "true" ELSE "false")
    /\ UNCHANGED socketOutRest

\* useSocket sendTyping(conversationId, isTyping): returns without a
\* connected socket, else emits typing_start or typing_stop
sendTyping ==
    /\ lastOut' = Outcome("sendTyping", "socket", SocketConnected, SocketConnected,
                          "undefined")
    /\ UNCHANGED socketOutRest

\* useSocket markAsRead(conversationId, messageId)
socketMarkAsRead ==
    /\ lastOut' = Outcome("markAsRead", "socket", SocketConnected, SocketConnected,
                          "undefined")
    /\ UNCHANGED socketOutRest

\* useSocket joinConversation(conversationId)
socketJoinConversation ==
    /\ lastOut' = Outcome("joinConversation", "socket", SocketConnected, SocketConnected,
                          IF SocketConnected THEN "true" ELSE "false")
    /\ UNCHANGED socketOutRest

\* useSocket leaveConversation(conversationId)
socketLeaveConversation ==
    /\ lastOut' = Outcome("leaveConversation", "socket", SocketConnected, SocketConnected,
                          "undefined")
    /\ UNCHANGED socketOutRest

\* socket.on('connect') of the useSocket inside useChat
chatOnConnect ==
    /\ chatSocket
    /\ ~chatConnected
    /\ chatConnected' = TRUE
    /\ UNCHANGED <<notTyping, lastOut, typingVars>>

\* socket.on('disconnect') of the useSocket inside useChat
chatOnDisconnect ==
    /\ chatSocket
    /\ chatConnected
    /\ chatConnected' = FALSE
    /\ UNCHANGED <<notTyping, lastOut, typingVars>>

\* useChat joinConversation(conversationId): without a socket it calls
\* connect() and returns, with one it emits join_conversation
chatJoinConversation ==
    /\ chatSocket' = TRUE
    /\ lastOut' = Outcome("joinConversation", "chat", chatSocket /\ chatConnected,
                          chatSocket, "undefined")
    /\ UNCHANGED chatOutRest

\* useChat sendMessage(data): an error toast without a socket or while
\* isConnected is false, else emit send_message
chatSendMessage ==
    /\ lastOut' = Outcome("sendMessage", "chat", chatSocket /\ chatConnected,
                          chatSocket /\ chatConnected, "undefined")
    /\ UNCHANGED <<chatOutRest, chatSocket>>

\* useChat startTyping(conversationId)
startTyping ==
    /\ lastOut' = Outcome("startTyping", "chat", chatSocket /\ chatConnected,
                          chatSocket /\ chatConnected, "undefined")
    /\ UNCHANGED <<chatOutRest, chatSocket>>

\* useChat stopTyping(conversationId)
stopTyping ==
    /\ lastOut' = Outcome("stopTyping", "chat", chatSocket /\ chatConnected,
                          chatSocket /\ chatConnected, "undefined")
    /\ UNCHANGED <<chatOutRest, chatSocket>>

\* useChat markAsRead(conversationId, messageId)
chatMarkAsRead ==
    /\ lastOut' = Outcome("markAsRead", "chat", chatSocket /\ chatConnected,
                          chatSocket /\ chatConnected, "undefined")
    /\ UNCHANGED <<chatOutRest, chatSocket>>

OutNext ==
    \/ connect
    \/ onConnect
    \/ onDisconnect
    \/ disconnect
    \/ \E c \in Convs : setActiveConversation(c)
    \/ socketSendMessage
    \/ sendTyping
    \/ socketMarkAsRead
    \/ socketJoinConversation
    \/ socketLeaveConversation
    \/ chatConnect
    \/ chatOnConnect
    \/ chatOnDisconnect
    \/ chatDisconnect
    \/ chatJoinConversation
    \/ \E c \in Convs : leaveConversation(c)
    \/ chatSendMessage
    \/ startTyping
    \/ stopTyping
    \/ chatMarkAsRead

InitOut ==
    /\ chatConnected = FALSE
    /\ lastOut = NoOutcome

(***************************************************************************)
(* Normalization of socket messages (parseSenderFromSocketMessage,         *)
(* normalizeSocketMessage)                                                 *)
(***************************************************************************)
\* JavaScript values: a type tag and, for strings and numbers, the value
Undefined == [t |-> "undefined", v |-> ""]
Null == [t |-> "null", v |-> ""]
Str(x) == [t |-> "string", v |-> x]
Num(x) == [t |-> "number", v |-> x]

\* user ids on the wire
WireIds == {"u1", "u2"}

\* truthiness of a value
Truthy(x) ==
    \/ x.t = "object"
    \/ x.t = "string" /\ x.v # ""
    \/ x.t = "number" /\ x.v # "0"

\* a || b
Or(a, b) == IF Truthy(a) THEN a ELSE b

\* a === b on strings, numbers, undefined and null
StrictEq(a, b) == a.t = b.t /\ a.v = b.v

\* the value a function call ends with when it throws
Throws == [t |-> "throws"]

\* message.sender as the wire carries it: missing, null, a string, or an
\* object with or without id and _id (and without name or username)
WireSenders ==
    {Undefined, Null, Str("u1")} \cup
    {[t |-> "object", id |-> i, _id |-> j] :
        i \in {Undefined, Str("")} \cup {Str(w) : w \in WireIds}, j \in {Undefined, Str("u1")}}

\* message payloads: null, undefined, or an object with its sender fields
\* (no replyTo, no replyMessage)
WireMessages ==
    {Null, Undefined} \cup
    [t : {"object"},
     sender : WireSenders,
     senderId : {Undefined, Str("u1"), Str("u2"), Str(""), Num("7")},
     sender_id : {Undefined, Str("u2")},
     senderName : {Undefined, Str("Ann")}]

\* the currentUserId argument
CurrentUserIds == {Undefined, Str(""), Str("u1"), Str("u2")}

\* each behaviour examines one call of a normalization function
NoCallYet == lastNorm.fn = "none"

\* parseSenderFromSocketMessage(message), as the id and the source of the
\* name of the sender it returns
parseSenderFromSocketMessage(message) ==
    IF message.t # "object" THEN Throws
    ELSE IF Truthy(message.sender) /\ message.sender.t = "object"
    THEN [t |-> "ok", id |-> Or(message.sender.id, message.sender._id), name |-> "Unknown"]
    ELSE IF Truthy(message.senderId) \/ Truthy(message.sender_id)
    THEN LET senderId == Or(message.senderId, message.sender_id)
         IN  IF Truthy(message.senderName)
             THEN [t |-> "ok", id |-> senderId, name |-> message.senderName.v]
             ELSE IF senderId.t = "string"
             THEN [t |-> "ok", id |-> senderId, name |-> "substring(0, 8)..."]
             ELSE Throws
    ELSE [t |-> "ok", id |-> Str("unknown"), name |-> "Unknown User"]

\* isFromCurrentUser with currentUserId left out of the comparison
isFromCurrentUser_AnySender(sender, currentUserId) == sender.id.t = "string"

\* currentUserId ? sender.id === currentUserId : false
isFromCurrentUser(sender, currentUserId) ==
    IF Truthy(currentUserId) THEN StrictEq(sender.id, currentUserId) ELSE FALSE

\* normalizeSocketMessage(socketMessage, currentUserId), as the sender and
\* the role of the IMessage it returns
normalizeSocketMessage(socketMessage, currentUserId) ==
    LET sender == parseSenderFromSocketMessage(socketMessage)
    IN  IF sender.t = "throws" THEN Throws
        ELSE [t |-> "ok",
              sender |-> [id |-> sender.id, name |-> sender.name],
              role |-> IF isFromCurrentUser(sender, currentUserId)
                       THEN "user" ELSE "assistant"]

\* a call normalizeSocketMessage(raw, currentUserId), as the new_message
\* handler of useSocket makes it
normalizeSocketMessageCall ==
    /\ NoCallYet
    /\ \E raw \in WireMessages, currentUserId \in CurrentUserIds :
           lastNorm' = [fn |-> "normalizeSocketMessage", raw |-> raw,
                        userId |-> currentUserId,
                        result |-> normalizeSocketMessage(raw, currentUserId)]
    /\ UNCHANGED notNorm

(***************************************************************************)
(* Participants of a conversation (parseParticipants, getConversations)    *)
(***************************************************************************)
MaxParticipants == 2

\* the current user and the other endpoint of a private conversation
CurrentUser == "me"
PartIds == {CurrentUser, "u1"}

\* ids that lastMessage.sender and createdBy can name; "" when they name none
NamedIds == {"", CurrentUser, "u1", "u2"}

\* a string that is a 24 character hex id, as a value
IdString(w) == [s |-> "hexId", v |-> w]

\* the id of a user object that has neither id nor _id
UndefinedId == [s |-> "undefined", v |-> ""]

\* the elements of a participants array: a 24 hex id, a stringified MongoDB
\* object (id "" when no _id can be extracted from it), a populated object
\* (id "" when it has neither id nor _id), another string, null
ParticipantItems ==
    {[k |-> "hexId", id |-> w] : w \in PartIds} \cup
    {[k |-> "mongoString", id |-> w] : w \in PartIds \cup {""}} \cup
    {[k |-> "object", id |-> w] : w \in PartIds \cup {""}} \cup
    {[k |-> "otherString", id |-> ""], [k |-> "null", id |-> ""]}

\* typeof item === 'string'
IsStringItem(item) == item.k \in {"hexId", "mongoString", "otherString"}

\* a string element itself, used as an id
TextOf(item) == [s |-> item.k, v |-> item.id]

\* user.id || user._id
ItemId(item) ==
    IF item.k = "object" /\ item.id # "" THEN IdString(item.id) ELSE UndefinedId

SeqsUpTo(S, n) == UNION {[1..m -> S] : m \in 0..n}

\* conv.participants: missing, or an array
WireParticipants ==
    {[t |-> "undefined", items |-> <<>>]} \cup
    {[t |-> "array", items |-> items] : items \in SeqsUpTo(ParticipantItems, MaxParticipants)}

Users(ids) == [t |-> "ok", users |-> ids]

\* parseParticipants(participants), as the ids of the users it returns
parseParticipants(participants) ==
    IF participants.t # "array" \/ participants.items = <<>> THEN Users(<<>>)
    ELSE LET items == participants.items
             firstItem == items[1]
         IN  IF firstItem.k = "hexId"
             THEN IF \A i \in DOMAIN items : IsStringItem(items[i])
                  THEN Users([i \in DOMAIN items |-> TextOf(items[i])])
                  ELSE Throws
             ELSE IF firstItem.k = "mongoString"
             THEN LET parsed == SelectSeq(items,
                                    LAMBDA x : x.k = "mongoString" /\ x.id # "")
                  IN  Users([i \in DOMAIN parsed |-> IdString(parsed[i].id)])
             ELSE IF firstItem.k = "null" THEN Throws
             ELSE IF firstItem.k = "object" /\ firstItem.id # ""
             THEN IF \E i \in DOMAIN items : items[i].k = "null"
                  THEN Throws
                  ELSE Users([i \in DOMAIN items |-> ItemId(items[i])])
             ELSE Users(<<>>)

\* extractParticipantIds(participants) throws on a null element
extractParticipantIdsThrows(participants) ==
    \E i \in DOMAIN participants.items : participants.items[i].k = "null"

\* the keys of a Map after set(key) for each element, in insertion order
RECURSIVE MapKeys(_)
MapKeys(keys) ==
    IF keys = <<>> THEN <<>>
    ELSE LET front == MapKeys(SubSeq(keys, 1, Len(keys) - 1))
             last == keys[Len(keys)]
         IN  IF last \in Range(front) THEN front ELSE Append(front, last)

\* wire conversations: type, participants, the id of lastMessage.sender and
\* the id parseCreatedByUser extracts from createdBy
WireConversations ==
    [type : {"private", "group"},
     participants : WireParticipants,
     lastMessageSender : NamedIds,
     createdBy : NamedIds]

\* the body of conversationsList.map in getConversations (utils version),
\* as the ids of the participants of the conversation it returns
adaptConversation(conv) ==
    LET participantUsers == parseParticipants(conv.participants)
        items == conv.participants.items
    IN  IF participantUsers.t = "throws" THEN Throws
        ELSE IF conv.type = "private"
        THEN IF conv.participants.t # "array" THEN Throws
             ELSE IF \E i \in DOMAIN items : ~IsStringItem(items[i]) THEN Throws
             ELSE LET fromIds == [i \in DOMAIN items |-> TextOf(items[i])]
                      fromSender == IF conv.lastMessageSender # ""
                                    THEN <<IdString(conv.lastMessageSender)>> ELSE <<>>
                      fromCreatedBy == IF conv.createdBy # ""
                                       THEN <<IdString(conv.createdBy)>> ELSE <<>>
                  IN  Users(MapKeys(fromIds \o fromSender \o fromCreatedBy))
        ELSE IF extractParticipantIdsThrows(conv.participants) THEN Throws
        ELSE participantUsers

\* the body of conversationsList.map in getConversations of
\* src/composables/useConversation.ts
adaptConversationPlaceholders(conv) ==
    LET items == conv.participants.items
    IN  IF conv.participants.t = "array" /\ items # <<>>
        THEN IF IsStringItem(items[1])
             THEN IF \A i \in DOMAIN items : IsStringItem(items[i])
                  THEN Users([i \in DOMAIN items |-> TextOf(items[i])])
                  ELSE Throws
             ELSE Users([i \in DOMAIN items |->
                            IF items[i].k = "null" THEN [s |-> "null", v |-> ""]
                            ELSE ItemId(items[i])])
        ELSE Users(<<>>)

\* a call parseParticipants(participants)
parseParticipantsCall ==
    /\ NoCallYet
    /\ \E participants \in WireParticipants :
           lastNorm' = [fn |-> "parseParticipants", raw |-> participants,
                        result |-> parseParticipants(participants)]
    /\ UNCHANGED notNorm

\* getConversations() (utils version) for a response that lists one conversation
getConversations ==
    /\ NoCallYet
    /\ \E conv \in WireConversations :
           lastNorm' = [fn |-> "getConversations", raw |-> conv,
                        result |-> adaptConversation(conv)]
    /\ UNCHANGED notNorm

\* getConversations() of src/composables/useConversation.ts for a response
\* that lists one conversation
getConversationsPlaceholders ==
    /\ NoCallYet
    /\ \E conv \in WireConversations :
           lastNorm' = [fn |-> "getConversations", raw |-> conv,
                        result |-> adaptConversationPlaceholders(conv)]
    /\ UNCHANGED notNorm

(***************************************************************************)
(* Reply references (parseReplyToId, resolveReplyToReferences)             *)
(***************************************************************************)
MaxBatch == 2

\* ids of the messages of a batch, and an id no message of a batch has
BatchIds == {"m1", "m2"}
ReplyIds == BatchIds \cup {"m3"}

\* msg.replyTo: missing, a plain 24 hex id, "new ObjectId('...')", another
\* string, or an object
ReplyTos ==
    {[f |-> "none", id |-> ""], [f |-> "text", id |-> ""], [f |-> "object", id |-> "m1"],
     [f |-> "plain", id |-> "m1"], [f |-> "constructor", id |-> "m2"],
     [f |-> "plain", id |-> "m3"]}

\* msg.replyToMessage: unset, set by the sender of the batch, the embedded
\* replyMessage of the message, or the element of the batch at an index
NoRef == [to |-> "none", at |-> 0]
PresetRef == [to |-> "preset", at |-> 0]
EmbeddedRef == [to |-> "replyMessage", at |-> 0]
BatchRef(i) == [to |-> "batch", at |-> i]

\* the messages of a batch
BatchMsg ==
    [id : BatchIds, replyTo : ReplyTos, replyMessage : BOOLEAN,
     replyToMessage : {NoRef, PresetRef}]

Batches == SeqsUpTo(BatchMsg, MaxBatch)

\* parseReplyToId(replyToString): the id, "null" when none is found
parseReplyToId(replyTo) ==
    IF replyTo.f \in {"plain", "constructor"} THEN replyTo.id ELSE "null"

\* the map callback of resolveReplyToReferences with the lookup left out
resolveOne_NoLookup(batch, msg) ==
    IF msg.replyMessage /\ msg.replyToMessage = NoRef
    THEN [msg EXCEPT !.replyToMessage = EmbeddedRef]
    ELSE msg

\* the map callback of resolveReplyToReferences
resolveOne(batch, msg) ==
    IF msg.replyMessage /\ msg.replyToMessage = NoRef
    THEN [msg EXCEPT !.replyToMessage = EmbeddedRef]
    ELSE IF msg.replyTo.f = "none" \/ msg.replyToMessage # NoRef THEN msg
    ELSE IF msg.replyTo.f = "object" THEN msg
    ELSE LET replyToId == parseReplyToId(msg.replyTo)
             replyToMsg == FindIndexById(batch, replyToId)
         IN  IF replyToId # "null" /\ replyToMsg > 0
             THEN [msg EXCEPT !.replyToMessage = BatchRef(replyToMsg)]
             ELSE msg

\* resolveReplyToReferences(messages)
resolveReplyToReferences(batch) ==
    [i \in 1..Len(batch) |-> resolveOne(batch, batch[i])]

\* a call resolveReplyToReferences(batch)
resolveReplyToReferencesCall ==
    /\ NoCallYet
    /\ \E batch \in Batches :
           lastNorm' = [fn |-> "resolveReplyToReferences", raw |-> batch,
                        result |-> resolveReplyToReferences(batch)]
    /\ UNCHANGED notNorm

\* 24 hex ids
HexIds == {"507f191e810c19729de860ea", "68f608c2e981c55e7c302c9c"}

\* the pieces a reference string is put together from: a bare id, a
\* constructor call, an _id field, another field holding a constructor
\* call, a name field, other text
RefFields ==
    {[k |-> k, v |-> h] : k \in {"hex", "ctor", "idField", "field"}, h \in HexIds} \cup
    {[k |-> "name", v |-> "Alice"], [k |-> "text", v |-> "x"]}

\* the text of a piece, as its lexical tokens
FieldText(f) ==
    CASE f.k = "hex" -> <<f.v>>
      [] f.k = "ctor" -> <<"new ", "ObjectId('", f.v, "')">>
      [] f.k = "idField" -> <<"_id: ", "new ", "ObjectId('", f.v, "')">>
      [] f.k = "field" -> <<"sender: ", "new ", "ObjectId('", f.v, "')">>
      [] f.k = "name" -> <<"name: '", f.v, "'">>
      [] OTHER -> <<f.v>>

\* the text of a sequence of pieces, separated by ", "
RECURSIVE TextOfFields(_)
TextOfFields(fields) ==
    IF fields = <<>> THEN <<>>
    ELSE IF Len(fields) = 1 THEN FieldText(fields[1])
    ELSE FieldText(fields[1]) \o <<", ">> \o TextOfFields(Tail(fields))

\* the strings handed to the parsers
RefStrings == SeqsUpTo(RefFields, MaxFields)

\* the token at position i, "" past the end
At(text, i) == IF i \in 1..Len(text) THEN text[i] ELSE ""

\* the positions where /ObjectId\('([a-f0-9]{24})'\)/i matches
ObjectIdAt(text) ==
    {i \in 1..Len(text) :
        At(text, i) = "ObjectId('" /\ At(text, i + 1) \in HexIds /\ At(text, i + 2) = "')"}

\* the positions where /_id:\s*new ObjectId\('([a-f0-9]{24})'\)/i matches
IdFieldAt(text) ==
    {i \in 1..Len(text) :
        At(text, i) = "_id: " /\ At(text, i + 1) = "new " /\ (i + 2) \in ObjectIdAt(text)}

\* the positions where /name:\s*'([^']+)'/i matches
NameAt(text) ==
    {i \in 1..Len(text) :
        At(text, i) = "name: '" /\ At(text, i + 1) \notin {"", "'"} /\ At(text, i + 2) = "'"}

\* the smallest element of a non-empty set of positions: match() returns the
\* leftmost match
First(S) == CHOOSE i \in S : \A j \in S : i <= j

\* parseReplyToId(replyToString) on a non-empty string, the three regular
\* expressions tried in the order of the code
parseReplyToIdText(text) ==
    IF Len(text) = 1 /\ text[1] \in HexIds THEN text[1]
    ELSE IF ObjectIdAt(text) # {} THEN text[First(ObjectIdAt(text)) + 1]
    ELSE IF IdFieldAt(text) # {} THEN text[First(IdFieldAt(text)) + 3]
    ELSE "null"

\* parseCreatedByUser(createdByString), as the id and name of the user it
\* returns
parseCreatedByUser(text) ==
    LET id == IF IdFieldAt(text) # {} THEN text[First(IdFieldAt(text)) + 3] ELSE "null"
        name == IF NameAt(text) # {} THEN text[First(NameAt(text)) + 1] ELSE "null"
    IN  IF text = <<>> \/ id = "null" \/ name = "null" THEN [t |-> "null"]
        ELSE [t |-> "user", id |-> id, name |-> name]

\* parseReplyToId and parseCreatedByUser called on the same string
parseReplyToIdCall ==
    /\ NoCallYet
    /\ \E fields \in RefStrings \ {<<>>} :
           lastNorm' = [fn |-> "parseReplyToId", raw |-> fields,
                        result |-> parseReplyToIdText(TextOfFields(fields)),
                        user |-> parseCreatedByUser(TextOfFields(fields))]
    /\ UNCHANGED notNorm

NormNext ==
    \/ normalizeSocketMessageCall
    \/ parseParticipantsCall
    \/ getConversations
    \/ getConversationsPlaceholders
    \/ resolveReplyToReferencesCall
    \/ parseReplyToIdCall

(***************************************************************************)
(* useConversation: the conversation list and its user cache               *)
(***************************************************************************)
\* field values of a user: undefined, the empty string, the placeholder
\* name made of the id's first 8 characters, or a known value
NoValue == "undefined"
Placeholder == "substring(0, 8)..."
IsKnownValue(v) == v \notin {NoValue, "", Placeholder}

\* a || b on field values
OrValue(a, b) == IF a \notin {NoValue, ""} THEN a ELSE b

\* a user of the conversation list
ConvUser(id, name, email, avatarUrl) ==
    [id |-> id, name |-> name, email |-> email, avatarUrl |-> avatarUrl]

\* the user details a cache entry holds; NoEntry when the cache has no
\* entry for the id
NoEntry == [cached |-> FALSE, name |-> "", email |-> "", avatarUrl |-> ""]
CacheEntries ==
    {NoEntry,
     [cached |-> TRUE, name |-> "", email |-> "", avatarUrl |-> ""],
     [cached |-> TRUE, name |-> "Bob", email |-> "", avatarUrl |-> ""],
     [cached |-> TRUE, name |-> "Bob", email |-> "bob@x", avatarUrl |-> "bob.png"]}

\* the user maps a caller passes (the friends list): details of u1 or none
UserMaps == {[id \in PartIds |-> IF id = "u1" THEN e ELSE NoEntry] : e \in CacheEntries}

\* conv.lastMessage.sender: none, or a user with or without name, email
\* and avatar
LastMessageSenders ==
    {[id |-> "", name |-> NoValue, email |-> NoValue, avatar |-> NoValue]} \cup
    {[id |-> id, name |-> f[1], email |-> f[2], avatar |-> f[3]] :
        id \in PartIds,
        f \in {<<NoValue, NoValue, NoValue>>, <<"Ann", NoValue, NoValue>>,
               <<"Ann", "ann@x", "ann.png">>}}

\* a private conversation of the response: its participant ids (24 hex
\* strings), lastMessage.sender and the id parseCreatedByUser finds in
\* createdBy ("" when createdBy is not parseable)
PrivateConversations ==
    [participants : {<<"u1">>, <<"u1", CurrentUser>>, <<CurrentUser, "u1">>},
     lastMessageSender : LastMessageSenders,
     createdBy : {""} \cup PartIds]

\* the user parseCreatedByUser returns
createdByUser(id) == ConvUser(id, "Creator", NoValue, NoValue)

\* Map.prototype.set(user.id, user) on the values in insertion order
UsersSet(users, user) ==
    IF \E i \in 1..Len(users) : users[i].id = user.id
    THEN [i \in 1..Len(users) |-> IF users[i].id = user.id THEN user ELSE users[i]]
    ELSE Append(users, user)

UsersHas(users, id) == \E i \in 1..Len(users) : users[i].id = id

UserOf(users, id) == users[CHOOSE i \in 1..Len(users) : users[i].id = id]

\* step 1: a placeholder for every participant id not yet in the map
RECURSIVE placeholdersOf(_)
placeholdersOf(ids) ==
    IF ids = <<>> THEN <<>>
    ELSE LET front == placeholdersOf(SubSeq(ids, 1, Len(ids) - 1))
             id == ids[Len(ids)]
         IN  IF UsersHas(front, id) THEN front
             ELSE Append(front, ConvUser(id, Placeholder, "", ""))

\* step 2: lastMessage.sender replaces the entry of its id
withLastMessageSender(users, sender) ==
    IF sender.id # ""
    THEN UsersSet(users, ConvUser(sender.id, sender.name,
                                  OrValue(sender.email, ""), OrValue(sender.avatar, "")))
    ELSE users

\* step 3: the user parsed from createdBy, when the map has no entry for it
withCreatedBy(users, id) ==
    IF id # "" /\ ~UsersHas(users, id) THEN Append(users, createdByUser(id)) ELSE users

\* step 4: the cache entries of the participant ids
RECURSIVE withUserCache(_, _, _)
withUserCache(users, ids, cache) ==
    IF ids = <<>> THEN users
    ELSE LET id == Head(ids)
             cachedUser == cache[id]
             old == UserOf(users, id)
             enriched == ConvUser(id,
                                  OrValue(cachedUser.name, old.name),
                                  OrValue(cachedUser.email, OrValue(old.email, "")),
                                  OrValue(cachedUser.avatarUrl, OrValue(old.avatarUrl, "")))
         IN  withUserCache(IF cachedUser.cached THEN UsersSet(users, enriched) ELSE users,
                           Tail(ids), cache)

\* the participants getConversations gives a private conversation
privateParticipants(conv, cache) ==
    withUserCache(
        withCreatedBy(
            withLastMessageSender(placeholdersOf(conv.participants), conv.lastMessageSender),
            conv.createdBy),
        conv.participants, cache)

\* enrichUserWithCache with the cached values written over the user's
enrichUserWithCache_CacheWins(user, cache) ==
    IF ~cache[user.id].cached THEN user
    ELSE ConvUser(user.id, cache[user.id].name, cache[user.id].email,
                  cache[user.id].avatarUrl)

\* enrichUserWithCache(user, userCache)
enrichUserWithCache(user, cache) ==
    LET cachedUser == cache[user.id]
    IN  IF ~cachedUser.cached THEN user
        ELSE ConvUser(user.id,
                      OrValue(cachedUser.name, user.name),
                      OrValue(cachedUser.email, user.email),
                      OrValue(cachedUser.avatarUrl, user.avatarUrl))

\* enrichUsersWithCache(users, userCache)
enrichUsersWithCache(users, cache) ==
    [i \in 1..Len(users) |-> enrichUserWithCache(users[i], cache)]

\* enrichConversationsWithUserDetails(userMap)
enrichConversationsWithUserDetails(userMap) ==
    /\ userCache' = userMap
    /\ conversations' = enrichUsersWithCache(conversations, userMap)
    /\ UNCHANGED notConv

\* getConversations() after api.get resolved with the private conversation
\* conv
getConversationsOk(conv) ==
    /\ conversations' = privateParticipants(conv, userCache)
    /\ UNCHANGED <<userCache, notConv>>

InitConv ==
    /\ conversations = <<>>
    /\ userCache = [id \in PartIds |-> NoEntry]

ConvNext ==
    \/ \E userMap \in UserMaps : enrichConversationsWithUserDetails(userMap)
    \/ \E conv \in PrivateConversations : getConversationsOk(conv)

(***************************************************************************)
(* useMessages: read state                                                 *)
(***************************************************************************)
\* the conversation whose read state is followed
ReadConvs == {"c1"}

\* user ids that send and read messages
ReaderIds == {"u1", "u2"}

\* readBy arrays the server sends: no id twice
ReadByArrays == {<<>>, <<"u1">>, <<"u2">>}

\* IChatMessage with the fields the read state uses
ReadMsg == [id : MsgIds, createdAt : {1}, senderId : ReaderIds, readBy : ReadByArrays]

\* getCurrentUserId(): "null" when no token is stored
getCurrentUserId == IF storedToken = "" THEN "null" ELSE TokenUserId(storedToken)

\* readBy.includes(userId)
ReadByIncludes(msg, userId) == \E i \in 1..Len(msg.readBy) : msg.readBy[i] = userId

\* the forEach of markAllAsRead with the push done for every message
markAllAsReadList_PushAlways(list, currentUserId) ==
    [i \in 1..Len(list) |->
        IF currentUserId # "null"
        THEN [list[i] EXCEPT !.readBy = Append(@, currentUserId)]
        ELSE list[i]]

\* the forEach of markAllAsRead on one conversation's array
markAllAsReadList(list, currentUserId) ==
    [i \in 1..Len(list) |->
        IF currentUserId # "null" /\ ~ReadByIncludes(list[i], currentUserId)
        THEN [list[i] EXCEPT !.readBy = Append(@, currentUserId)]
        ELSE list[i]]

\* markAllAsRead(conversationId) after api.put resolved
markAllAsReadOk(c) ==
    /\ messages' = [messages EXCEPT ![c] = markAllAsReadList(messages[c], getCurrentUserId)]
    /\ lastRead' = [op |-> "markAllAsRead", c |-> c, result |-> TRUE]
    /\ UNCHANGED <<msgKeys, isLoadingMessages, pendingHistory, typingVars, pinVars, appVars,
                   outVars, lastNorm, convVars, authVars, sendVars, moreVars>>

\* markAllAsRead(conversationId) after api.put rejected: the catch block
markAllAsReadFail(c) ==
    /\ lastRead' = [op |-> "markAllAsRead", c |-> c, result |-> FALSE]
    /\ UNCHANGED <<msgVars, typingVars, pinVars, appVars, outVars, lastNorm, convVars, authVars,
                   sendVars, moreVars>>

\* getUnreadCount(conversationId) on a list for a current user id
unreadCountOf(list, currentUserId) ==
    IF currentUserId = "null" THEN 0
    ELSE Cardinality({i \in 1..Len(list) :
            list[i].senderId # currentUserId /\ ~ReadByIncludes(list[i], currentUserId)})

\* getUnreadCount(conversationId)
getUnreadCount(c) == unreadCountOf(messages[c], getCurrentUserId)

InitRead == lastRead = [op |-> "none", c |-> "none", result |-> FALSE]

ReadNext ==
    \/ \E c \in ReadConvs, m \in ReadMsg : addMessage(c, m)
    \/ \E c \in ReadConvs : markAllAsReadOk(c)
    \/ \E c \in ReadConvs : markAllAsReadFail(c)
    \/ \E t \in Tokens : login(t)
    \/ handleSignOut

(***************************************************************************)
(* useAuth and useApi: the persisted credential                            *)
(***************************************************************************)
\* what the credential's operations leave alone
notAuth == <<msgVars, typingVars, pinVars, connVars, presenceVars, activeConversation,
             configToken, lastConnect, onConnectEmits, outVars, lastNorm, convVars, lastRead,
              sendVars, moreVars>>

\* the exp claim of an access token's payload, in seconds
TokenExp(t) == IF t = "t1" THEN 1 ELSE 4

\* what hasValidToken() returns
tokenIsValid == storedToken # "" /\ ~(TokenExp(storedToken) * 1000 < now)

\* hasValidToken() with an expired token left in storage
hasValidToken_NoPurge ==
    /\ lastAuth' = [op |-> "hasValidToken", result |-> tokenIsValid]
    /\ UNCHANGED <<notAuth, storedToken, storedUser, currentUser>>

\* hasValidToken(): an expired token is removed together with the user
\* record
hasValidToken ==
    /\ lastAuth' = [op |-> "hasValidToken", result |-> tokenIsValid]
    /\ IF storedToken # "" /\ TokenExp(storedToken) * 1000 < now
       THEN storedToken' = "" /\ storedUser' = ""
       ELSE UNCHANGED <<storedToken, storedUser>>
    /\ UNCHANGED <<notAuth, currentUser>>

\* fetchWithTimeout on a 401 response: removes the keys auth_token and
\* auth_user, which hold nothing, and throws
onUnauthorized ==
    /\ lastAuth' = [op |-> "401", result |-> FALSE]
    /\ UNCHANGED <<notAuth, storedToken, storedUser, currentUser>>

\* the module body of useAuth when the page is loaded: currentUser is read
\* from the stored user record
authSetup ==
    /\ currentUser' = IF storedUser # "" THEN storedUser ELSE "null"
    /\ UNCHANGED <<notAuth, storedToken, storedUser, lastAuth>>

\* useAuth: isAuthenticated
isAuthenticated == currentUser # "null"

InitAuth ==
    /\ storedUser = ""
    /\ currentUser = "null"
    /\ lastAuth = [op |-> "none", result |-> FALSE]

AuthNext ==
    \/ \E t \in Tokens \cup {""} : login(t)
    \/ handleSignOut
    \/ hasValidToken
    \/ onUnauthorized
    \/ authSetup
    \/ \E d \in TimeSteps : Tick(d)

(***************************************************************************)
(* App.vue: sending a message                                              *)
(***************************************************************************)
\* the conversation messages are sent in
SendConvs == {"c1"}

\* the message a send creates, as the server will store it
SendMsg == [id : MsgIds, createdAt : {1}]

\* what a send leaves alone
sendRest == <<typingVars, pinVars, appVars, chatConnected, lastNorm, convVars, lastRead,
              authVars, moreVars>>

\* handleSendMessage(data) for a signed-in user with an active conversation:
\* over a connected socket it emits send_message and returns; otherwise it
\* posts the message, and addMessage stores it when the post resolves
\* (restOk)
handleSendMessage(m, restOk) ==
    LET c == activeConversation
        sent == isConnected /\ SocketConnected
        stores == ~sent /\ restOk
    IN  /\ isAuthenticated
        /\ activeConversation # "null"
        /\ stores => Len(addMessageList(messages[c], m)) <= MaxLen
        /\ lastOut' = IF isConnected
                      THEN Outcome("sendMessage", "socket", SocketConnected, SocketConnected,
                                   IF SocketConnected THEN "true" ELSE "false")
                      ELSE lastOut
        /\ inFlight' = IF sent THEN inFlight \cup {m.id} ELSE inFlight
        /\ lastSend' = [via |-> IF sent THEN "socket" ELSE IF restOk THEN "rest" ELSE "none",
                        c |-> c, id |-> m.id]
        /\ messages' = IF stores
                       THEN [messages EXCEPT ![c] = addMessageList(messages[c], m)]
                       ELSE messages
        /\ msgKeys' = IF stores THEN KeysSet(msgKeys, c) ELSE msgKeys
        /\ UNCHANGED <<isLoadingMessages, pendingHistory, sendRest>>

\* the new_message event the server sends for a message in flight: App.vue's
\* onNewMessage asks for page 1 of the active conversation again and removes
\* the sender from the typing names
onNewMessage(id) ==
    /\ SocketConnected
    /\ id \in inFlight
    /\ inFlight' = inFlight \ {id}
    /\ IF activeConversation # "null"
       THEN /\ <<activeConversation, 1>> \notin pendingHistory
            /\ Cardinality(pendingHistory) < MaxPending
            /\ isLoadingMessages' = TRUE
            /\ pendingHistory' = pendingHistory \cup {<<activeConversation, 1>>}
            /\ appTypingUsers' = FilterOutName(appTypingUsers, UserName(currentUser))
       ELSE UNCHANGED <<isLoadingMessages, pendingHistory, appTypingUsers>>
    /\ UNCHANGED <<messages, msgKeys, typingVars, pinVars, connVars, onlineUsers,
                   activeConversation, tokenVars, lastConnect, onConnectEmits, outVars,
                   lastNorm, convVars, lastRead, authVars, lastSend, moreVars>>

\* the history responses that hold messages sent here
SendHistoryResponses ==
    {d \in HistoryResponses : \A i \in 1..Len(d) : d[i] \in SendMsg}

InitSend ==
    /\ inFlight = {}
    /\ lastSend = [via |-> "none", c |-> "null", id |-> "none"]

SendNext ==
    \/ \E m \in SendMsg, restOk \in BOOLEAN : handleSendMessage(m, restOk)
    \/ \E id \in MsgIds : onNewMessage(id)
    \/ \E c \in SendConvs, d \in SendHistoryResponses : getChatHistoryOk(c, 1, d)
    \/ \E c \in SendConvs : getChatHistoryFail(c, 1)
    \/ \E c \in SendConvs : setActiveConversation(c)
    \/ login("t1")
    \/ connect
    \/ onConnect
    \/ onDisconnect

InitNorm == lastNorm = [fn |-> "none"]

(***************************************************************************)
(* useConversation: the order of the conversation list                     *)
(***************************************************************************)
\* ids of the conversations in the list
ListConvs == {"c1", "c2"}
\* getTime() of the lastMessageAt dates a server sends
ListTimes == {1000, 2000}
\* lastMessageAt is undefined
NoTime == 0

\* IConversation, reduced to _id (as id), lastMessage (the id of the message)
\* and lastMessageAt
ListConv == [id : ListConvs, lastMessage : {"m1"}, lastMessageAt : ListTimes \cup {NoTime}]

\* the lists getConversations stores: conversations with distinct ids, in
\* the server's order
ConvListResponses ==
    {l \in SeqsUpTo(ListConv, MaxConvs) :
        \A i, j \in 1..Len(l) : l[i].id = l[j].id => i = j}

\* a.lastMessageAt ? new Date(a.lastMessageAt).getTime() : 0
timeOf(conv) == conv.lastMessageAt

\* one step of a stable insertion by the comparator timeB - timeA
InsertByLastMessageAt(sorted, x) ==
    LET n == Cardinality({i \in 1..Len(sorted) : timeOf(sorted[i]) >= timeOf(x)})
    IN  InsertAt(sorted, n, x)

RECURSIVE SortLastPrefix(_, _)
SortLastPrefix(list, k) ==
    IF k = 0 THEN <<>>
    ELSE InsertByLastMessageAt(SortLastPrefix(list, k - 1), list[k])

\* conversations.value.sort((a, b) => timeB - timeA)
SortByLastMessageAt(list) == SortLastPrefix(list, Len(list))

\* updateConversationLastMessage leaving the list in the order it had
updateLastMessageList_NoSort(list, c, lastMessage, lastMessageAt, date) ==
    LET index == FindIndexById(list, c)
    IN  IF index = 0 THEN list
        ELSE [list EXCEPT ![index].lastMessage = lastMessage,
                          ![index].lastMessageAt =
                              IF lastMessageAt # NoTime THEN lastMessageAt ELSE date]

\* updateConversationLastMessage on the list: the conversation found by id
\* gets lastMessage and lastMessageAt || new Date(), then the list is sorted
updateLastMessageList(list, c, lastMessage, lastMessageAt, date) ==
    LET index == FindIndexById(list, c)
    IN  IF index = 0 THEN list
        ELSE SortByLastMessageAt(
                 [list EXCEPT ![index].lastMessage = lastMessage,
                              ![index].lastMessageAt =
                                  IF lastMessageAt # NoTime THEN lastMessageAt ELSE date])

\* updateConversationLastMessage(conversationId, lastMessage, lastMessageAt)
updateConversationLastMessage(c, lastMessage, lastMessageAt) ==
    /\ convList' = updateLastMessageList(convList, c, lastMessage, lastMessageAt, now)
    /\ UNCHANGED notList

\* getConversations() storing the adapted list
getConversationsList(list) ==
    /\ convList' = list
    /\ UNCHANGED notList

\* deleteConversation(conversationId) after api.del resolved
deleteConversation(c) ==
    /\ convList' = SelectSeq(convList, LAMBDA conv : conv.id # c)
    /\ UNCHANGED notList

InitList == convList = <<>>

ListNext ==
    \/ \E list \in ConvListResponses : getConversationsList(list)
    \/ \E c \in ListConvs, at \in ListTimes \cup {NoTime} :
          updateConversationLastMessage(c, "m2", at)
    \/ \E c \in ListConvs : deleteConversation(c)
    \/ \E d \in TimeSteps : Tick(d)

(***************************************************************************)
(* App.vue on useSocket: inbound messages                                  *)
(***************************************************************************)
\* the users whose messages arrive
InboundSenders == {"u1", "u2"}

\* the new_message event for message m of conversation c sent by sender:
\* useSocket normalizes it and hands it to App.vue's onNewMessage, which,
\* when there is an active conversation, asks for page 1 of the active
\* conversation and removes the sender from the typing names (it then
\* reloads the conversation list)
onNewMessageFrom(c, m, sender) ==
    /\ SocketConnected
    /\ lastInbound' = [c |-> c, id |-> m.id]
    /\ IF activeConversation # "null"
       THEN /\ <<activeConversation, 1>> \notin pendingHistory
            /\ Cardinality(pendingHistory) < MaxPending
            /\ isLoadingMessages' = TRUE
            /\ pendingHistory' = pendingHistory \cup {<<activeConversation, 1>>}
            /\ appTypingUsers' = FilterOutName(appTypingUsers, UserName(sender))
       ELSE UNCHANGED <<isLoadingMessages, pendingHistory, appTypingUsers>>
    /\ UNCHANGED <<messages, msgKeys, typingVars, pinVars, connVars, onlineUsers,
                   activeConversation, tokenVars, lastConnect, onConnectEmits, outVars,
                   lastNorm, convVars, lastRead, authVars, sendVars, listVars, appTypingAt,
                   replaced, otherVars, selectVars>>

InitInbound == lastInbound = [c |-> "none", id |-> "none"]

InboundNext ==
    \/ \E c \in Convs, mm \in Msg, sender \in InboundSenders : onNewMessageFrom(c, mm, sender)
    \/ \E c \in Convs, d \in HistoryResponses : getChatHistoryOk(c, 1, d)
    \/ \E c \in Convs : getChatHistoryFail(c, 1)
    \/ \E c \in Convs : setActiveConversation(c)
    \/ connect
    \/ onConnect
    \/ onDisconnect

(***************************************************************************)
(* App.vue: the typing names over time                                     *)
(***************************************************************************)
\* no typing-start of the user has been shown
NeverTyped == -1

InitAppTyping == appTypingAt = [u \in AppUserIds |-> NeverTyped]

AppTypingNext ==
    \/ \E c \in Convs, u \in AppUserIds, isTyping \in BOOLEAN : onUserTyping(c, u, isTyping)
    \/ \E c \in Convs : setActiveConversation(c)
    \/ \E d \in TimeSteps : Tick(d)
    \/ connect
    \/ onConnect

(***************************************************************************)
(* useSocket (App.vue): the socket connect() replaced                      *)
(***************************************************************************)
\* socket.on('connect') of a replaced socket: its handler sets the same
\* refs and calls events.onConnect, whose joinConversation looks at
\* socket.value
replacedOnConnect ==
    /\ replaced \in {"connecting", "reconnecting"}
    /\ replaced' = "connected"
    /\ isConnected' = TRUE
    /\ isConnecting' = FALSE
    /\ error' = "null"
    /\ lastOut' = IF activeConversation # "null"
                  THEN Outcome("joinConversation", "socket", SocketConnected, SocketConnected,
                               IF SocketConnected THEN "true" ELSE "false")
                  ELSE lastOut
    /\ onConnectEmits' = IF activeConversation # "null" /\ SocketConnected
                         THEN {"join_conversation"} ELSE {}
    /\ UNCHANGED <<notSockets, socket, attempts, socketToken, presenceVars,
                   activeConversation, tokenVars, lastConnect>>

\* socket.on('disconnect') of a replaced socket, then events.onDisconnect
replacedOnDisconnect ==
    /\ replaced = "connected"
    /\ replaced' = "reconnecting"
    /\ isConnected' = FALSE
    /\ appTypingUsers' = <<>>
    /\ UNCHANGED <<notSockets, lastOut, socket, isConnecting, error, attempts, socketToken,
                   onlineUsers, activeConversation, tokenVars, lastConnect, onConnectEmits>>

\* socket.on('connect_error') of a replaced socket; gaveUp when it was its
\* last reconnection attempt
replacedOnConnectError(gaveUp) ==
    /\ replaced \in {"connecting", "reconnecting"}
    /\ replaced' = IF replaced = "reconnecting" /\ gaveUp THEN "closed" ELSE "reconnecting"
    /\ isConnecting' = FALSE
    /\ error' = "err"
    /\ UNCHANGED <<notSockets, lastOut, socket, isConnected, attempts, socketToken,
                   presenceVars, activeConversation, tokenVars, lastConnect, onConnectEmits>>

InitSockets == replaced = "none"

SocketsNext ==
    \/ connect
    \/ onConnect
    \/ onDisconnect
    \/ onConnectError
    \/ disconnect
    \/ replacedOnConnect
    \/ replacedOnDisconnect
    \/ \E gaveUp \in BOOLEAN : replacedOnConnectError(gaveUp)
    \/ \E c \in Convs : setActiveConversation(c)

(***************************************************************************)
(* useChat: a second instance on the shared typingUsers map                *)
(***************************************************************************)
\* the users and the conversation both instances hear of
SharedUserIds == {"u1"}
SharedConv == "c1"

\* what the second instance's handlers leave alone
notOther == <<msgVars, pinVars, appVars, lastNorm, convVars, lastRead, authVars, sendVars,
              outVars, listVars, inboundVars, appTypingAt, replaced, selectVars,
              typingTimeouts, timers, now, chatSocket, listening, cancelled>>

\* the user_typing handler of the second instance, data.isTyping true: it
\* sets the shared map and clears and sets its own timeout
otherOnUserTypingStart(c, u) ==
    LET key == TypingKey(c, u)
    IN  /\ typingEvents < MaxTypingEvents
        /\ typingUsers' = TypingSet(typingUsers,
                                    [key |-> key, conversationId |-> c, userId |-> u,
                                     isTyping |-> TRUE, timestamp |-> now])
        /\ otherTimers' =
              (IF otherTimeouts[key] # NoTimer
               THEN otherTimers \ {TimerOf(key, otherTimeouts[key])}
               ELSE otherTimers) \cup {TimerOf(key, now + TypingTimeoutMs)}
        /\ otherTimeouts' = [otherTimeouts EXCEPT ![key] = now + TypingTimeoutMs]
        /\ typingEvents' = typingEvents + 1
        /\ lastTyping' = [lastTyping EXCEPT ![key] = [kind |-> "start", at |-> now]]
        /\ UNCHANGED notOther

\* the user_typing handler of the second instance, data.isTyping false
otherOnUserTypingStop(c, u) ==
    LET key == TypingKey(c, u)
    IN  /\ typingEvents < MaxTypingEvents
        /\ typingUsers' = TypingDelete(typingUsers, key)
        /\ otherTimers' = IF otherTimeouts[key] # NoTimer
                          THEN otherTimers \ {TimerOf(key, otherTimeouts[key])}
                          ELSE otherTimers
        /\ otherTimeouts' = [otherTimeouts EXCEPT ![key] = NoTimer]
        /\ typingEvents' = typingEvents + 1
        /\ lastTyping' = [lastTyping EXCEPT ![key] = [kind |-> "stop", at |-> 0]]
        /\ UNCHANGED notOther

\* the setTimeout callback of the second instance, run when it is due
otherTypingTimeoutFires(t) ==
    /\ t \in otherTimers
    /\ now >= t.due
    /\ typingUsers' = TypingDelete(typingUsers, t.key)
    /\ otherTimeouts' = [otherTimeouts EXCEPT ![t.key] = NoTimer]
    /\ otherTimers' = otherTimers \ {t}
    /\ UNCHANGED <<notOther, typingEvents, lastTyping>>

InitOther ==
    /\ otherTimeouts = [k \in TypingKeys |-> NoTimer]
    /\ otherTimers = {}

SharedNext ==
    \/ \E u \in SharedUserIds : onUserTypingStart(SharedConv, u)
    \/ \E u \in SharedUserIds : onUserTypingStop(SharedConv, u)
    \/ \E t \in timers : typingTimeoutFires(t)
    \/ \E u \in SharedUserIds : otherOnUserTypingStart(SharedConv, u)
    \/ \E u \in SharedUserIds : otherOnUserTypingStop(SharedConv, u)
    \/ \E t \in otherTimers : otherTypingTimeoutFires(t)
    \/ \E d \in TimeSteps : Tick(d)
    \/ leaveConversation(SharedConv)
    \/ cleanup
    \/ chatConnect
    \/ setupListeners

(***************************************************************************)
(* App.vue: selecting a conversation                                       *)
(***************************************************************************)
\* the history responses a selection is answered with
SelectResponses == {<<>>} \cup {<<mm>> : mm \in {x \in ReadMsg : x.id = "m1" /\ x.readBy = <<>>}}

\* a handleSelectConversation call at one of its awaits
Selecting(c, at) == [c |-> c, at |-> at]

\* what a selection leaves alone
selectRest == <<typingVars, pinVars, connVars, onlineUsers, tokenVars, lastConnect,
                onConnectEmits, chatConnected, lastNorm, convVars, authVars, sendVars,
                listVars, inboundVars, appTypingAt, replaced, otherVars>>

\* handleSelectConversation(conversation) up to its await of getChatHistory:
\* leave the active conversation's room, make the conversation active, ask
\* for page 1 of its history
handleSelectConversation(c) ==
    /\ \A s \in selecting : s.c # c
    /\ Cardinality(selecting) < MaxSelecting
    /\ joined' = IF activeConversation # "null" /\ isConnected /\ SocketConnected
                 THEN joined \ {activeConversation} ELSE joined
    /\ lastOut' = IF activeConversation # "null" /\ isConnected
                  THEN Outcome("leaveConversation", "socket", SocketConnected,
                               SocketConnected, "undefined")
                  ELSE lastOut
    /\ activeConversation' = c
    /\ isLoadingMessages' = TRUE
    /\ pendingHistory' = pendingHistory \cup {<<c, 1>>}
    /\ selecting' = selecting \cup {Selecting(c, "history")}
    /\ UNCHANGED <<messages, msgKeys, appTypingUsers, lastRead, selectRest>>

\* handleSelectConversation after getChatHistory returned (ok: with
\* data.messages = data stored; otherwise null after its catch block): join
\* the room of the conversation that was selected, then await markAllAsRead
selectHistoryDone(c, ok, data) ==
    /\ Selecting(c, "history") \in selecting
    /\ messages' = IF ok THEN [messages EXCEPT ![c] = historyStored(messages[c], 1, data)]
                   ELSE messages
    /\ msgKeys' = IF ok THEN KeysSet(msgKeys, c) ELSE msgKeys
    /\ isLoadingMessages' = FALSE
    /\ pendingHistory' = pendingHistory \ {<<c, 1>>}
    /\ joined' = IF isConnected /\ SocketConnected THEN joined \cup {c} ELSE joined
    /\ lastOut' = IF isConnected
                  THEN Outcome("joinConversation", "socket", SocketConnected, SocketConnected,
                               IF SocketConnected THEN "true" ELSE "false")
                  ELSE lastOut
    /\ selecting' = (selecting \ {Selecting(c, "history")}) \cup {Selecting(c, "read")}
    /\ UNCHANGED <<activeConversation, appTypingUsers, lastRead, selectRest>>

\* handleSelectConversation after markAllAsRead returned: clear the typing
\* names
selectReadDone(c, ok) ==
    /\ Selecting(c, "read") \in selecting
    /\ messages' = IF ok
                   THEN [messages EXCEPT ![c] = markAllAsReadList(messages[c], getCurrentUserId)]
                   ELSE messages
    /\ lastRead' = [op |-> "markAllAsRead", c |-> c, result |-> ok]
    /\ appTypingUsers' = <<>>
    /\ selecting' = selecting \ {Selecting(c, "read")}
    /\ UNCHANGED <<msgKeys, isLoadingMessages, pendingHistory, activeConversation, lastOut,
                   joined, selectRest>>

InitSelect ==
    /\ joined = {}
    /\ selecting = {}

\* selections over a socket that was connected before a conversation was
\* selected
SelectNext ==
    \/ \E c \in Convs : handleSelectConversation(c)
    \/ \E c \in Convs, ok \in BOOLEAN, data \in SelectResponses : selectHistoryDone(c, ok, data)
    \/ \E c \in Convs, ok \in BOOLEAN : selectReadDone(c, ok)
    \/ login("t1")
    \/ connect
    \/ activeConversation = "null" /\ onConnect

Init ==
    /\ InitMsg /\ InitTyping /\ InitPin /\ InitApp /\ InitOut /\ InitNorm
    /\ InitConv /\ InitRead /\ InitAuth /\ InitSend
    /\ InitList /\ InitInbound /\ InitAppTyping /\ InitSockets /\ InitOther /\ InitSelect

SpecMsg == Init /\ [][MsgNext]_vars

SpecTyping == Init /\ [][TypingNext]_vars

SpecGroupTyping == Init /\ [][GroupTypingNext]_vars

SpecPin == Init /\ [][PinNext]_vars

SpecApp == Init /\ [][AppNext]_vars

SpecConn == Init /\ [][ConnNext]_vars

SpecOut == Init /\ [][OutNext]_vars
SpecNorm == Init /\ [][NormNext]_vars
SpecConv == Init /\ [][ConvNext]_vars
SpecRead == Init /\ [][ReadNext]_vars
SpecAuth == Init /\ [][AuthNext]_vars
SpecSend == Init /\ [][SendNext]_vars
SpecList == Init /\ [][ListNext]_vars
SpecInbound == Init /\ [][InboundNext]_vars
SpecAppTyping == Init /\ [][AppTypingNext]_vars
SpecSockets == Init /\ [][SocketsNext]_vars
SpecShared == Init /\ [][SharedNext]_vars
SpecSelect == Init /\ [][SelectNext]_vars

(***************************************************************************)
(* Claims about the message store (checked under SpecMsg)                  *)
(***************************************************************************)
\* C1: for every conversation c, every reachable store state and every
\* message m, addMessage(c, m) applied twice leaves c's list identical to
\* the list after one application.
C1_AddMessageIdempotent ==
    \A c \in Convs, m \in Msg :
        addMessageList(addMessageList(messages[c], m), m) = addMessageList(messages[c], m)

\* C2: in every state reachable through the store's operations no
\* conversation's list holds two messages with the same id.
C2_UniqueIds ==
    \A c \in Convs : \A i, j \in 1..Len(messages[c]) :
        i # j => messages[c][i].id # messages[c][j].id

\* C23: deleteMessage is a soft delete: after deleteMessage(id) has succeeded
\* for a message the store holds, the message is still in its conversation's
\* list at the position it had and the list has the length it had.
C23_DeleteKeepsMessage ==
    [][\A id \in MsgIds :
          (deleteMessage(id) /\ FirstKeyHolding(id) > 0) =>
              LET c == msgKeys[FirstKeyHolding(id)]
                  index == FindIndexById(messages[c], id)
              IN  /\ Len(messages'[c]) = Len(messages[c])
                  /\ messages'[c][index].id = id]_vars

\* C28: addMessage(c, m) for an id that c's list already holds replaces the
\* message in place: the new version is at the position the old one had and
\* every other position holds what it held, whatever createdAt the new
\* version has.
C28_AddReplacesInPlace ==
    [][\A c \in Convs, m \in Msg :
          (addMessage(c, m) /\ FindIndexById(messages[c], m.id) > 0) =>
              messages'[c] = [messages[c] EXCEPT ![FindIndexById(messages[c], m.id)] = m]]_vars

IsSortedByCreatedAt(list) ==
    \A i, j \in 1..Len(list) : i < j => list[i].createdAt <= list[j].createdAt

\* C3: every conversation's stored list is sorted ascending by createdAt
\* after every addMessage call and after every getChatHistory load (page 1
\* or a later page), whatever order the messages arrive in.
C3_SortedAfterAddAndLoad ==
    [][\A c \in Convs :
          (\/ \E m \in Msg : addMessage(c, m)
           \/ \E p \in Pages, d \in HistoryResponses : getChatHistoryOk(c, p, d))
          => IsSortedByCreatedAt(messages'[c])]_vars

(***************************************************************************)
(* Claims about the typing tracker (checked under SpecTyping)              *)
(***************************************************************************)
\* getTypingUsers(c) returns an indicator of user u
Shown(c, u) ==
    \E i \in 1..Len(getTypingUsers(c)) : getTypingUsers(c)[i].userId = u

\* C4: when the latest user_typing event for (c, u) was a typing-start and
\* nothing else has removed the indicator since (no leaveConversation of c,
\* no cleanup), getTypingUsers(c) returns the indicator while fewer than
\* 3000 ms have passed since that event and no longer returns it once more
\* than 3000 ms have passed.
C4_TypingExpiry ==
    \A c \in Convs, u \in TypingUserIds :
        LET last == lastTyping[TypingKey(c, u)]
        IN  last.kind = "start" =>
                /\ now < last.at + TypingTimeoutMs => Shown(c, u)
                /\ now > last.at + TypingTimeoutMs => ~Shown(c, u)

\* C4 witness: a single typing-start at 0, never refreshed, has expired
C4_Witness ==
    \E c \in Convs, u \in TypingUserIds :
        /\ lastTyping[TypingKey(c, u)] = [kind |-> "start", at |-> 0]
        /\ cancelled[TypingKey(c, u)] = NoTimer
        /\ now > TypingTimeoutMs
        /\ ~Shown(c, u)

\* C5: a repeated typing-start cancels the timer scheduled before it: a
\* timer that removes an indicator is always the one scheduled by the
\* indicator's latest typing-start (due 3000 ms after it), and a refreshed
\* indicator stays until 3000 ms after the refresh (starts at 0 and 2000:
\* present at 3500, removed at 5000).
C5_NoStaleTimerAfterRefresh ==
    [][\A k \in TypingKeys :
          /\ \A t \in timers :
                (t.key = k /\ TypingHas(k) /\ typingTimeoutFires(t))
                    => t.due = TypingTimestamp(k) + TypingTimeoutMs
          /\ (lastTyping'[k].kind = "start" /\ cancelled'[k] # NoTimer
                /\ now' < lastTyping'[k].at + TypingTimeoutMs)
                    => Shown(k[1], k[2])']_vars

\* C5 witness: starts at 0 and 2000; the indicator is there at 3500
C5_Witness ==
    \E k \in TypingKeys :
        /\ lastTyping[k] = [kind |-> "start", at |-> 2000]
        /\ cancelled[k] = TypingTimeoutMs
        /\ now = 3500
        /\ TypingHas(k)

\* C6: after a typing-stop for (c, u) the indicator is gone and no expiry
\* timer of the key is pending, so no pending timer is older than the
\* typing-start of the indicator it can remove.
C6_StopCancelsTimer ==
    /\ \A k \in TypingKeys :
          lastTyping[k].kind = "stop" =>
              /\ ~TypingHas(k)
              /\ \A t \in timers : t.key # k
    /\ \A t \in timers :
          TypingHas(t.key) => t.due = TypingTimestamp(t.key) + TypingTimeoutMs

\* C6 witness: a typing-stop found the key's timer still pending and
\* cleared it
C6_Witness ==
    \E k \in TypingKeys :
        /\ lastTyping[k].kind = "stop"
        /\ cancelled[k] # NoTimer
        /\ now < cancelled[k]

(***************************************************************************)
(* Claims about the connection state (checked under SpecApp)               *)
(***************************************************************************)
\* C30: getTypingUsers(c) returns the active indicators of conversation c
\* ordered ascending by the time of their latest typing-start, after any
\* sequence of typing-start, refresh, stop and expiry events for several
\* users.
C30_TypingOrderedByStart ==
    \A c \in Convs :
        LET users == getTypingUsers(c)
        IN  \A i, j \in 1..Len(users) :
                i < j => users[i].timestamp <= users[j].timestamp

\* the part of C30 that does not depend on the order: getTypingUsers(c)
\* holds each user at most once, with the time of the user's latest
\* typing-start
C30_TypingHoldsLatestStart ==
    \A c \in Convs :
        LET users == getTypingUsers(c)
        IN  \A i, j \in 1..Len(users) :
                /\ users[i].userId = users[j].userId => i = j
                /\ lastTyping[users[i].key] = [kind |-> "start", at |-> users[i].timestamp]

\* C7: whenever the socket's disconnect event is handled, the typing names
\* are cleared and the online-user set is empty afterwards.
C7_DisconnectClearsPresence ==
    [][onDisconnect => (appTypingUsers' = <<>> /\ onlineUsers' = {})]_vars

(***************************************************************************)
(* Claims about the pinned-message cache (checked under SpecPin)           *)
(***************************************************************************)
\* the documented capacity of a conversation's pinned list
MaxPinned == 5

\* the entry at list position i (0-based) has order i
IsDense(list) == \A i \in 1..Len(list) : list[i].order = i - 1

\* the message ids of a list, in list order
IdsOf(list) == [i \in 1..Len(list) |-> list[i].id]

\* C8: a pin into a conversation that already holds 5 entries is refused
\* and leaves the list unchanged, so no conversation ever holds more than 5
\* pinned entries.
C8_AtMostFivePinned ==
    \A c \in PinConvs : Len(pinnedMessages[c]) <= MaxPinned

\* C9: after any sequence of addPinnedMessage, removePinnedMessage and
\* updatePinnedMessageOrder the orders of a conversation's n entries are
\* exactly 0..n-1 and the entry at position i has order i.
C9_DenseOrders ==
    \A c \in PinConvs : IsDense(pinnedMessages[c])

\* C10: on a densely ordered list of n entries, updatePinnedMessageOrder(c,
\* m, k) with 0 <= k < n moves m to position k, keeps the relative order of
\* all other entries and leaves the orders 0..n-1.
C10_ReorderIsMove ==
    [][lastPin' = "reorder" =>
          \A c \in PinConvs :
              IsDense(pinnedMessages[c]) =>
                  \A m \in PinMsgIds, k \in NewOrders :
                      LET before == pinnedMessages[c]
                          after == pinnedMessages'[c]
                          from == FindIndexById(before, m)
                      IN  (/\ 0 <= k /\ k < Len(before)
                           /\ from > 0
                           /\ updatePinnedMessageOrder(c, m, k))
                          => /\ Len(after) = Len(before)
                             /\ after[k + 1].id = m
                             /\ IdsOf(RemoveAt(after, k + 1)) =
                                    IdsOf(RemoveAt(before, from))
                             /\ IsDense(after)]_vars

\* C10 witness: a reorder has just acted on the five-entry list p1..p5 and
\* has made p5, the entry that had order 4, the second entry
C10_Witness ==
    \E c \in PinConvs :
        /\ lastPin = "reorder"
        /\ IdsOf(pinnedMessages[c]) = <<"p1", "p5", "p2", "p3", "p4">>
        /\ IsDense(pinnedMessages[c])

\* C29: updatePinnedMessageOrder clamps newOrder: on a list of n entries a
\* negative newOrder puts the moved entry at position 0 and a newOrder >= n
\* puts it at position n-1, the other entries keep their relative order and
\* the orders are renumbered 0..n-1.
C29_ReorderClamps ==
    [][lastPin' = "reorder" =>
          \A c \in PinConvs, m \in PinMsgIds, k \in NewOrders :
              LET before == pinnedMessages[c]
                  after == pinnedMessages'[c]
                  n == Len(before)
                  from == FindIndexById(before, m)
                  to == IF k < 0 THEN 1 ELSE n
              IN  (/\ (k < 0 \/ k >= n)
                   /\ from > 0
                   /\ updatePinnedMessageOrder(c, m, k))
                  => /\ Len(after) = n
                     /\ after[to].id = m
                     /\ IdsOf(RemoveAt(after, to)) = IdsOf(RemoveAt(before, from))
                     /\ IsDense(after)]_vars

\* the part of C29 about a newOrder at or past the end: the moved entry
\* becomes the last one
C29_ReorderPastEndIsLast ==
    [][lastPin' = "reorder" =>
          \A c \in PinConvs, m \in PinMsgIds, k \in NewOrders :
              LET before == pinnedMessages[c]
                  after == pinnedMessages'[c]
                  n == Len(before)
                  from == FindIndexById(before, m)
              IN  (/\ k >= n
                   /\ from > 0
                   /\ updatePinnedMessageOrder(c, m, k))
                  => /\ Len(after) = n
                     /\ after[n].id = m
                     /\ IdsOf(RemoveAt(after, n)) = IdsOf(RemoveAt(before, from))
                     /\ IsDense(after)]_vars

\* C11: the cache operations are idempotent under retry: an addPinnedMessage
\* for an id the list already holds leaves its length unchanged and one
\* entry for the id, a removePinnedMessage for an id the list does not hold
\* leaves the list and every order unchanged, and the list an
\* updatePinnedMessageOrder leaves is unchanged by the same call again.
C11_PinRetryIdempotent ==
    [][\A c \in PinConvs, id \in PinMsgIds :
          LET before == pinnedMessages[c]
              after == pinnedMessages'[c]
          IN  /\ \A order \in PinOrders :
                    (FindIndexById(before, id) > 0
                       /\ addPinnedMessage(c, [id |-> id, order |-> order]))
                    => /\ Len(after) = Len(before)
                       /\ Cardinality({i \in 1..Len(after) : after[i].id = id}) = 1
              /\ (FindIndexById(before, id) = 0 /\ removePinnedMessage(c, id))
                    => after = before
              /\ \A k \in NewOrders :
                    updatePinnedMessageOrder(c, id, k)
                    => updatePinnedOrderList(after, id, k) = after]_vars

(***************************************************************************)
(* Claims about the socket channel (checked under SpecOut and SpecConn)    *)
(***************************************************************************)
\* C12: an outbound action of useSocket or of useChat that is called while
\* its socket is not connected emits no event and reports failure to its
\* caller by returning false.
C12_OutboundFailsWhenNotConnected ==
    (lastOut.op # "none" /\ ~lastOut.connected)
        => (~lastOut.emitted /\ lastOut.result = "false")

\* C13: connect() called while the socket is connected is a no-op: the
\* socket stays the one it was (no new socket, no listeners registered
\* again) and isConnected, isConnecting and error keep their values.
C13_ConnectWhenConnectedIsNoOp ==
    [][(SocketConnected /\ connect) => UNCHANGED connVars]_vars

\* C13 witness: the last connect() found the socket connected and the
\* channel is still connected
C13_Witness ==
    /\ lastConnect = "ignored"
    /\ SocketConnected
    /\ isConnected
    /\ ~isConnecting

\* C14: each time the socket's connect event is handled (first connect or
\* reconnect) the client requests the online-user list from the server
\* and, if a conversation is active, emits join_conversation for it.
C14_ResyncOnConnect ==
    [][onConnect =>
          onConnectEmits' = {"get_online_users"} \cup
              (IF activeConversation # "null" THEN {"join_conversation"} ELSE {})]_vars

\* C15: a socket that lost its connection makes at most 5 reconnection
\* attempts; once they have all failed it makes no further attempt, and
\* then isConnected and isConnecting are false and error is not null.
C15_RetriesBoundedThenError ==
    /\ attempts <= ReconnectionAttempts
    /\ socket = "closed" =>
          /\ attempts = ReconnectionAttempts
          /\ ~isConnected
          /\ ~isConnecting
          /\ error # "null"
          /\ ~ENABLED onConnect
          /\ ~ENABLED onConnectError

\* C15 witness: a channel that had been connected, and had rejoined a
\* conversation then, has used up its reconnection attempts
C15_Witness ==
    /\ socket = "closed"
    /\ attempts = ReconnectionAttempts
    /\ error = "err"
    /\ ~isConnected
    /\ onConnectEmits = {"join_conversation"}

\* C16: after an explicit disconnect() (as done on sign-out), in whatever
\* state it is called, the channel is disconnected: socket null,
\* isConnected false and isConnecting false.
C16_DisconnectIsTerminal ==
    [][(disconnect \/ handleSignOut) =>
          (socket' = "null" /\ ~isConnected' /\ ~isConnecting')]_vars

\* C17: every connect() that opens a socket gives it the access token that
\* is in storage at the moment connect() is called.
C17_TokenReadAtConnect ==
    [][(~SocketConnected /\ connect) => socketToken' = storedToken]_vars

SenderMatchesNoShape(raw) ==
    /\ raw.t = "object"
    /\ ~(raw.sender.t = "object" /\ (Truthy(raw.sender.id) \/ Truthy(raw.sender._id)))
    /\ ~(raw.senderId.t = "string" /\ raw.senderId.v # "")
    /\ ~(raw.sender_id.t = "string" /\ raw.sender_id.v # "")

\* a participant the known shapes do not cover
ParticipantMatchesNoShape(item) ==
    \/ item.k \in {"otherString", "null"}
    \/ item.k \in {"mongoString", "object"} /\ item.id = ""

\* C19: normalizeSocketMessage and parseParticipants never throw, whatever
\* the shape of the payload; a sender that matches no known shape is returned
\* with id "unknown", and parseParticipants returns one user per element,
\* with id "unknown" for an element that matches no known shape.
C19_NormalizationNeverThrows ==
    /\ lastNorm.fn = "normalizeSocketMessage" =>
        /\ lastNorm.result.t = "ok"
        /\ SenderMatchesNoShape(lastNorm.raw) =>
               lastNorm.result.sender.id = Str("unknown")
    /\ lastNorm.fn = "parseParticipants" =>
        /\ lastNorm.result.t = "ok"
        /\ Len(lastNorm.result.users) = Len(lastNorm.raw.items)
        /\ \A i \in DOMAIN lastNorm.raw.items :
               ParticipantMatchesNoShape(lastNorm.raw.items[i]) =>
                   lastNorm.result.users[i] = [s |-> "otherString", v |-> "unknown"]

\* a private conversation as the backend sends it: one or two distinct
\* participant ids, the other endpoint among them and nobody but the two
\* endpoints; lastMessage.sender and createdBy name nobody or an endpoint
WellFormedPrivate(conv) ==
    /\ conv.type = "private"
    /\ conv.participants.t = "array"
    /\ Len(conv.participants.items) \in 1..2
    /\ \A i \in DOMAIN conv.participants.items : conv.participants.items[i].k = "hexId"
    /\ [k |-> "hexId", id |-> "u1"] \in Range(conv.participants.items)
    /\ Len(conv.participants.items) = 2 =>
           [k |-> "hexId", id |-> CurrentUser] \in Range(conv.participants.items)
    /\ conv.lastMessageSender \in {""} \cup PartIds
    /\ conv.createdBy \in {""} \cup PartIds

\* C20: a private conversation produced by getConversations has exactly two
\* participants, the other endpoint and the current user, without duplicate
\* ids, also when the payload lists one participant id only and when
\* lastMessage.sender or createdBy names a user.
C20_PrivateHasBothEndpoints ==
    (lastNorm.fn = "getConversations" /\ WellFormedPrivate(lastNorm.raw)) =>
        /\ lastNorm.result.t = "ok"
        /\ Len(lastNorm.result.users) = 2
        /\ Range(lastNorm.result.users) = {IdString("u1"), IdString(CurrentUser)}

(***************************************************************************)
(* Claims about the conversation list (checked under SpecConv)             *)
(***************************************************************************)
\* the field of the participant with the id is known before the step and
\* not known after it
Downgraded(before, after, id, field) ==
    /\ UsersHas(before, id) /\ UsersHas(after, id)
    /\ IsKnownValue(UserOf(before, id)[field])
    /\ ~IsKnownValue(UserOf(after, id)[field])

UserFields == {"name", "email", "avatarUrl"}

\* C21: no step of the conversation list (enrichConversationsWithUserDetails,
\* a reload by getConversations with its enrichment steps) replaces a known
\* name, email or avatarUrl of a participant by a placeholder, an empty
\* string or undefined.
C21_NoDowngrade ==
    [][\A id \in PartIds, field \in UserFields :
           ~Downgraded(conversations, conversations', id, field)]_vars

\* C21 for enrichConversationsWithUserDetails alone: it keeps every known
\* field known
C21_EnrichKeepsKnown ==
    [][(\E userMap \in UserMaps : enrichConversationsWithUserDetails(userMap)) =>
           \A id \in PartIds, field \in UserFields :
               ~Downgraded(conversations, conversations', id, field)]_vars


(***************************************************************************)
(* Claims about the read state (checked under SpecRead)                    *)
(***************************************************************************)
\* how often the id occurs in the message's readBy
ReadByCount(msg, userId) == Cardinality({i \in 1..Len(msg.readBy) : msg.readBy[i] = userId})

\* C22: after markAllAsRead(c) has succeeded for a signed-in user, every
\* message of c has the user's id in readBy exactly once, a readBy that held
\* the id is unchanged, getUnreadCount(c) is 0 and the same call again would
\* change nothing; a failed markAllAsRead changes no message.
C22_MarkAllAsRead ==
    [][\A c \in ReadConvs :
          /\ (markAllAsReadOk(c) /\ getCurrentUserId # "null") =>
                /\ Len(messages'[c]) = Len(messages[c])
                /\ \A i \in 1..Len(messages[c]) :
                      /\ ReadByCount(messages'[c][i], getCurrentUserId) = 1
                      /\ ReadByIncludes(messages[c][i], getCurrentUserId) =>
                             messages'[c][i] = messages[c][i]
                /\ unreadCountOf(messages'[c], getCurrentUserId) = 0
                /\ markAllAsReadList(messages'[c], getCurrentUserId) = messages'[c]
          /\ markAllAsReadFail(c) => messages' = messages]_vars

\* markAllAsRead has succeeded for u2 on two messages of u1, one of which u2
\* had read before, and no message is unread
C22_Witness ==
    /\ lastRead = [op |-> "markAllAsRead", c |-> "c1", result |-> TRUE]
    /\ getCurrentUserId = "u2"
    /\ Len(messages["c1"]) = 2
    /\ \A i \in 1..2 : messages["c1"][i].senderId = "u1"
    /\ messages["c1"][1].readBy = <<"u2">>
    /\ messages["c1"][2].readBy = <<"u1", "u2">>
    /\ getUnreadCount("c1") = 0


(***************************************************************************)
(* Claims about reply references (checked under SpecNorm)                  *)
(***************************************************************************)
\* the message has a replyTo that names an id and no replyToMessage yet
HasUnresolvedReplyTo(msg) ==
    /\ msg.replyTo.f \in {"plain", "constructor"}
    /\ msg.replyToMessage = NoRef

\* the batch holds a message with the id
InBatch(batch, id) == \E j \in 1..Len(batch) : batch[j].id = id

\* C24 for messages without an embedded replyMessage: a message whose
\* replyTo is an unresolved id X gets the first message of the batch with id
\* X as replyToMessage when there is one and keeps replyToMessage unset
\* otherwise; a message with an embedded replyMessage and no replyToMessage
\* gets the embedded message; replyTo is never changed and every other
\* message is returned as it was.
C24_ResolvesWithinBatchOrEmbedded ==
    lastNorm.fn = "resolveReplyToReferences" =>
        LET batch == lastNorm.raw
            result == lastNorm.result
        IN  /\ Len(result) = Len(batch)
            /\ \A i \in 1..Len(batch) :
                  /\ result[i].id = batch[i].id
                  /\ result[i].replyTo = batch[i].replyTo
                  /\ IF batch[i].replyMessage /\ batch[i].replyToMessage = NoRef
                     THEN result[i].replyToMessage = EmbeddedRef
                     ELSE IF HasUnresolvedReplyTo(batch[i]) /\ InBatch(batch, batch[i].replyTo.id)
                     THEN /\ result[i].replyToMessage.to = "batch"
                          /\ batch[result[i].replyToMessage.at].id = batch[i].replyTo.id
                          /\ \A j \in 1..(result[i].replyToMessage.at - 1) :
                                 batch[j].id # batch[i].replyTo.id
                     ELSE result[i].replyToMessage = batch[i].replyToMessage

\* a batch of two was resolved: the second message replies to the first and
\* refers to it, the first replies to an id the batch lacks and stays
\* unresolved
C24_Witness ==
    /\ lastNorm.fn = "resolveReplyToReferences"
    /\ Len(lastNorm.raw) = 2
    /\ lastNorm.raw[1].id = "m2" /\ lastNorm.raw[1].replyTo = [f |-> "plain", id |-> "m3"]
    /\ lastNorm.raw[2].replyTo = [f |-> "constructor", id |-> "m2"]
    /\ lastNorm.result[1].replyToMessage = NoRef
    /\ lastNorm.result[2].replyToMessage = BatchRef(1)

\* C24 as stated: every message whose replyTo is an unresolved id X gets the
\* batch message with id X when there is one and keeps replyToMessage unset
\* otherwise, and no reference set by the call points outside the batch.
C24_ResolvesOnlyWithinBatch ==
    lastNorm.fn = "resolveReplyToReferences" =>
        LET batch == lastNorm.raw
            result == lastNorm.result
        IN  \A i \in 1..Len(batch) :
               /\ HasUnresolvedReplyTo(batch[i]) =>
                     IF InBatch(batch, batch[i].replyTo.id)
                     THEN /\ result[i].replyToMessage.to = "batch"
                          /\ batch[result[i].replyToMessage.at].id = batch[i].replyTo.id
                     ELSE result[i].replyToMessage = NoRef
               /\ result[i].replyToMessage # batch[i].replyToMessage =>
                     result[i].replyToMessage.to = "batch"


(***************************************************************************)
(* Claims about the persisted credential (checked under SpecAuth)          *)
(***************************************************************************)
\* C25: hasValidToken() returns false and removes the token and the user
\* record when the stored token's exp is in the past, returns true and
\* leaves storage unchanged when the token is not expired, and returns
\* false, leaving storage unchanged, when no token is stored.
C25_ExpiredTokenIsPurged ==
    [][hasValidToken =>
          IF storedToken = ""
          THEN ~lastAuth'.result /\ UNCHANGED <<storedToken, storedUser>>
          ELSE IF TokenExp(storedToken) * 1000 < now
          THEN ~lastAuth'.result /\ storedToken' = "" /\ storedUser' = ""
          ELSE lastAuth'.result /\ UNCHANGED <<storedToken, storedUser>>]_vars

\* hasValidToken() has just found the token expired: it returned false, the
\* clock is past the token's exp and storage holds neither token nor user
C25_Witness ==
    /\ lastAuth = [op |-> "hasValidToken", result |-> FALSE]
    /\ currentUser = "u1"
    /\ now > TokenExp("t1") * 1000
    /\ storedToken = ""
    /\ storedUser = ""

\* C26: the client counts as authenticated only if storage holds both a
\* bearer token and a user record.
C26_AuthenticatedOnlyWithTokenAndUser ==
    isAuthenticated => (storedToken # "" /\ storedUser # "")


(***************************************************************************)
(* Claims about sending (checked under SpecSend)                           *)
(***************************************************************************)
\* C27: when handleSendMessage has emitted send_message, the sent message
\* is in the active conversation's local list at once, before any server
\* event arrives.
C27_SentMessageIsLocal ==
    [][\A m \in SendMsg, restOk \in BOOLEAN :
          (handleSendMessage(m, restOk) /\ isConnected /\ SocketConnected) =>
              FindIndexById(messages'[activeConversation], m.id) > 0]_vars

\* C27 for the REST fallback: a message posted with success is in the local
\* list when handleSendMessage ends
C27_RestSendIsLocal ==
    [][\A m \in SendMsg :
          (handleSendMessage(m, TRUE) /\ ~(isConnected /\ SocketConnected)) =>
              FindIndexById(messages'[activeConversation], m.id) > 0]_vars


(***************************************************************************)
(* The order of the conversation list                                      *)
(***************************************************************************)
\* the list is in descending order of lastMessageAt (none counts as 0)
IsSortedByLastMessageAt(list) ==
    \A i, j \in 1..Len(list) : i < j => timeOf(list[i]) >= timeOf(list[j])

\* C31: after updateConversationLastMessage on a conversation that is in the
\* list, the list is sorted by last-message time (lastMessageAt) descending;
\* for an id that is not in the list nothing changes.
C31_UpdateSortsList ==
    [][\A c \in ListConvs, at \in ListTimes \cup {NoTime} :
          updateConversationLastMessage(c, "m2", at) =>
              IF FindIndexById(convList, c) > 0
              THEN IsSortedByLastMessageAt(convList')
              ELSE convList' = convList]_vars

\* C31 witness: an update has left its conversation in front of one with an
\* older lastMessageAt
C31_Witness ==
    /\ Len(convList) = 2
    /\ convList[1].lastMessage = "m2"
    /\ convList[2].lastMessage = "m1"
    /\ convList[1].lastMessageAt = 2000
    /\ convList[2].lastMessageAt = 1000


(***************************************************************************)
(* Inbound messages                                                        *)
(***************************************************************************)
\* C32: after a new_message event is handled, the message is in the stored
\* list of the conversation it belongs to, whether or not that conversation
\* is the active one, and without a further server round-trip.
C32_InboundIsStored ==
    [][\A c \in Convs, mm \in Msg, sender \in InboundSenders :
          onNewMessageFrom(c, mm, sender) =>
              \E i \in 1..Len(messages'[c]) : messages'[c][i].id = mm.id]_vars


(***************************************************************************)
(* The typing names App.vue shows                                          *)
(***************************************************************************)
\* C33: a name a user_typing start event put into App.vue's typingUsers is
\* removed on its own 3000 ms after the last typing-start: no name is still
\* shown later than that.
C33_AppTypingExpires ==
    \A u \in AppUserIds :
        Includes(appTypingUsers, UserName(u)) => now <= appTypingAt[u] + TypingTimeoutMs


(***************************************************************************)
(* Reference strings                                                       *)
(***************************************************************************)
\* the first _id field among the pieces of a string, 0 when there is none
FirstIdField(fields) ==
    IF \E i \in 1..Len(fields) : fields[i].k = "idField"
    THEN First({i \in 1..Len(fields) : fields[i].k = "idField"})
    ELSE 0

\* C34: parseReplyToId returns the 24-hex id when given a bare 24-hex
\* string, a constructor call text new ObjectId('<hex>') or a serialized
\* document text containing _id: new ObjectId('<hex>'), and null for any
\* other string; from the serialized document of user
\* 507f191e810c19729de860ea named Alice, that id and that name are
\* extracted.
C34_ReferenceStringClassified ==
    lastNorm.fn = "parseReplyToId" =>
        LET fields == lastNorm.raw
        IN  /\ lastNorm.result =
                  IF Len(fields) = 1 /\ fields[1].k \in {"hex", "ctor"} THEN fields[1].v
                  ELSE IF FirstIdField(fields) > 0 THEN fields[FirstIdField(fields)].v
                  ELSE "null"
            /\ fields = <<[k |-> "idField", v |-> "507f191e810c19729de860ea"],
                          [k |-> "name", v |-> "Alice"]>>
                   => lastNorm.user = [t |-> "user", id |-> "507f191e810c19729de860ea",
                                       name |-> "Alice"]

\* the parts of C34 the parsers keep: the three shapes on their own give
\* their id, a string without a constructor call gives null, and the
\* document of Alice gives her id and name
C34_ShapesOnTheirOwn ==
    lastNorm.fn = "parseReplyToId" =>
        LET fields == lastNorm.raw
        IN  /\ (Len(fields) = 1 /\ fields[1].k \in {"hex", "ctor", "idField"})
                   => lastNorm.result = fields[1].v
            /\ (\A i \in 1..Len(fields) : fields[i].k \in {"hex", "name", "text"}) /\ Len(fields) > 1
                   => lastNorm.result = "null"
            /\ (Len(fields) >= 2 /\ fields[1].k = "idField" /\ fields[2] = [k |-> "name", v |-> "Alice"])
                   => lastNorm.user = [t |-> "user", id |-> fields[1].v, name |-> "Alice"]


(***************************************************************************)
(* The sockets of one useSocket instance                                   *)
(***************************************************************************)
\* C35: a useSocket instance has at most one live socket with handlers
\* attached: connect() while an earlier socket is connecting or
\* reconnecting does not leave that socket alive.
C35_OneLiveSocket ==
    replaced \notin {"connecting", "reconnecting", "connected"}

\* C36: isConnected is true only if the current socket exists and is
\* connected, and isConnected and isConnecting are never true together.
C36_ConnectedMatchesSocket ==
    /\ isConnected => SocketConnected
    /\ ~(isConnected /\ isConnecting)


(***************************************************************************)
(* Several useChat instances on the shared typingUsers map                 *)
(***************************************************************************)
\* C37: with several useChat instances sharing typingUsers, an indicator is
\* never removed earlier than 3000 ms after the latest typing-start any
\* instance received for its key, unless a typing-stop for the key is
\* received (or a leaveConversation or cleanup clears it); so no timer left
\* behind deletes an indicator created after it was set.
C37_SharedIndicatorKeepsItsTime ==
    [][\A k \in TypingKeys :
          (/\ TypingHas(k)
           /\ ~\E i \in 1..Len(typingUsers') : typingUsers'[i].key = k
           /\ lastTyping'[k].kind \notin {"stop", "cleared"})
              => now >= lastTyping[k].at + TypingTimeoutMs]_vars


(***************************************************************************)
(* The rooms of the selected conversations                                 *)
(***************************************************************************)
\* C38: after any sequence of conversation selections, overlapping ones
\* included, the rooms joined and not left are a subset of {the active
\* conversation}.
C38_JoinedOnlyActive ==
    joined \subseteq {activeConversation}


(***************************************************************************)
(* A merged message and the history responses (checked under SpecSend,     *)
(* which calls neither removeMessage nor clearMessages)                    *)
(***************************************************************************)
\* C39: the message a REST send merged into its conversation with
\* addMessage stays in that conversation's list: no page-1 history
\* response removes it.
C39_MergedMessageStays ==
    lastSend.via = "rest" => FindIndexById(messages[lastSend.c], lastSend.id) > 0


(***************************************************************************)
(* What sign-out leaves behind (checked under SpecConn)                    *)
(***************************************************************************)
\* C40: while nobody is signed in, no token and no user record is stored,
\* and a socket made then was given no token.
C40_SignedOutCarriesNoToken ==
    currentUser = "null" =>
        /\ storedToken = ""
        /\ storedUser = ""
        /\ socket # "null" => socketToken = ""

====
